---- MODULE Spec2Model ----
(***************************************************************************)
(* Split Page - the notepad's note ordering engine (src/js/notepad.js).    *)
(*                                                                         *)
(* The state is the Position Index (#notesContainerIndex, a JavaScript Map *)
(* from position to note id, kept here with its insertion order because    *)
(* the code iterates it), and the notes container (the DOM children of     *)
(* #notesContainer in document order, each with its id, its                *)
(* data-note-index attribute and the value / defaultValue / max of its     *)
(* position input).                                                        *)
(***************************************************************************)
EXTENDS Integers, Sequences, FiniteSets, TLC

\* ---------------------------------------------------------------- bounds
\* Largest number of notes the New note operation is allowed to reach.
MaxNotes == 3
\* Largest value of the clock read by Date.now().
MaxTime == 1
\* How far outside 1..MaxNotes a requested target position may lie.
Slack == 1
\* How many calls a run makes from the call that ends with an error on (that
\* call included).
MaxAftermath == 3
\* The data dataFallbackMode is called with are 0..MaxData.
MaxData == 2
\* The wait a function is debounced with, in ticks of the event loop's clock.
Wait == 2
\* How many calls of the debounced function a run makes.
MaxCalls == 3
\* The argument of a call of the debounced function is one of 1..MaxArg.
MaxArg == 2
\* Largest value of the event loop's clock; no call is made after
\* MaxClock - Wait, so that every timer may fire within the run.
MaxClock == 6
\* How many notes the open notepad holds where the notes are followed
\* together with the observer and the stored notepads.
MaxOpenNotes == 2
\* How many times the accent colour control is used on one note.
MaxColourChanges == 1
\* How many copy markers a title carries.
MaxCopies == 1
\* How many writes the local storage refuses in a run.
MaxFailedWrites == 1
\* How many times the Import, Restore, Duplicate and Delete controls are used
\* in a run.
MaxStoreCalls == 2
\* How many characters the user types into the text of a note.
MaxTextLen == 3
\* How many words the longest text pasted into a note holds.
MaxWords == 5
\* How many calls are made on the StorageDB instance.
MaxDBCalls == 3

Times == 0..MaxTime
\* A note id is 'note' + time + backTag; it is kept as the pair <<time, backTag>>.
NoteIDs == Times \X (1..MaxNotes)
\* The positions a caller (or the user typing in the position input) may ask for.
Positions == (1 - Slack)..(MaxNotes + Slack)

\* ------------------------------------------------------- JavaScript values
\* What Map.get returns for a missing key, and what a slot holds after
\* set(key, undefined).
Undefined == <<>>

\* Attribute and input values: a number, null (attribute missing), the string
\* "undefined" (dataset.noteIndex = undefined) and the empty string.
Num(n) == [tag |-> "num", n |-> n]
Null == [tag |-> "null", n |-> 0]
UndefinedString == [tag |-> "undefined", n |-> 0]
EmptyString == [tag |-> "empty", n |-> 0]

\* key < index and key > index of deleteNote, where index is the string read
\* by getAttribute: a numeric string compares as the number, "undefined" is
\* NaN (both comparisons false), null is 0.
LessThanAttr(key, attr) ==
    CASE attr.tag = "num" -> key < attr.n
      [] attr.tag = "null" -> key < 0
      [] OTHER -> FALSE

GreaterThanAttr(key, attr) ==
    CASE attr.tag = "num" -> key > attr.n
      [] attr.tag = "null" -> key > 0
      [] OTHER -> FALSE

\* ------------------------------------------------------------ sequences
RemoveAt(s, i) == [k \in 1..(Len(s) - 1) |-> IF k < i THEN s[k] ELSE s[k + 1]]

\* Insert e so that it becomes the i-th element (i = Len(s) + 1 appends).
InsertAt(s, i, e) ==
    [k \in 1..(Len(s) + 1) |-> IF k < i THEN s[k] ELSE IF k = i THEN e ELSE s[k - 1]]

\* ------------------------------------------------------ the Map (ordered)
\* A Map is the sequence of its entries [k, v] in insertion order.
MapHas(m, key) == \E i \in 1..Len(m) : m[i].k = key

MapSlot(m, key) == CHOOSE i \in 1..Len(m) : m[i].k = key

MapGet(m, key) == IF MapHas(m, key) THEN m[MapSlot(m, key)].v ELSE Undefined

\* set keeps the slot of an existing key and appends a new one.
MapSet(m, key, val) ==
    IF MapHas(m, key)
    THEN [m EXCEPT ![MapSlot(m, key)].v = val]
    ELSE Append(m, [k |-> key, v |-> val])

MapKeys(m) == {m[i].k : i \in 1..Len(m)}

\* ---------------------------------------------------------------- the DOM
\* document.getElementById: the first element, in document order, with that
\* id; 0 stands for null.
getElementById(dom, id) ==
    IF \E i \in 1..Len(dom) : dom[i].id = id
    THEN CHOOSE i \in 1..Len(dom) :
            /\ dom[i].id = id
            /\ \A j \in 1..(i - 1) : dom[j].id # id
    ELSE 0

\* notesContainer.querySelector('[data-note-index="n"]'); 0 stands for null.
querySelectorNoteIndex(dom, n) ==
    IF \E i \in 1..Len(dom) : dom[i].noteIndex = Num(n)
    THEN CHOOSE i \in 1..Len(dom) :
            /\ dom[i].noteIndex = Num(n)
            /\ \A j \in 1..(i - 1) : dom[j].noteIndex # Num(n)
    ELSE 0

\* #defaults.notepadTitle, #defaults.noteTitle, #defaults.accentColors.
DefaultNotepadTitle == "New notepad"
DefaultNoteTitle == "New note"
DefaultAccentColors ==
    <<"", "#fde6e6", "#ebf2f9", "#fefbe6", "#feddc9", "#e5f4da", "#f2eef9">>

\* The element #createNote builds: no data-note-index yet, an empty position
\* input whose max is the index the note was created for; the title and the
\* text as innerText, the colour as data-accent-color.
createNote(noteID, noteTitle, noteText, noteAccentColor, noteIndex) ==
    [id |-> noteID, noteIndex |-> Null, value |-> EmptyString,
     defaultValue |-> EmptyString, max |-> noteIndex,
     title |-> noteTitle, content |-> noteText, accentColor |-> noteAccentColor]

\* generateID('note', index): frontTag + Date.now() + backTag.
generateID(time, backTag) == <<time, backTag>>

\* The ids of the rendered notes in document order: the order in which
\* #retrieveNotepad pushes the notes into the record.
retrieveNotepad(dom) == [i \in 1..Len(dom) |-> dom[i].id]

\* ------------------------------------------------------------ #indexNotes
\* for (const [index, id] of this.#notesContainerIndex): the entries in
\* insertion order; note = getElementById(get(index)); a null note makes
\* note.dataset throw a TypeError and ends the pass where it stands.
RECURSIVE indexNotesFrom(_, _, _)
indexNotesFrom(m, dom, i) ==
    IF i > Len(m)
    THEN [dom |-> dom, err |-> "none"]
    ELSE LET j == getElementById(dom, m[i].v)
         IN  IF j = 0
             THEN [dom |-> dom, err |-> "TypeError"]
             ELSE indexNotesFrom(
                      m,
                      [dom EXCEPT ![j] = [@ EXCEPT !.noteIndex = Num(m[i].k),
                                                   !.value = Num(m[i].k),
                                                   !.defaultValue = Num(m[i].k),
                                                   !.max = Len(m)]],
                      i + 1)

indexNotes(m, dom) == indexNotesFrom(m, dom, 1)

\* The outcome of an operation: the Map, the notes container and the error
\* the call ended with ("none" when it returned).
Outcome(m, dom, err) == [index |-> m, dom |-> dom, err |-> err]

\* --------------------------------------------------------------- newNote
\* newNote(noteProperties) with noteID already resolved (supplied, or
\* generateID('note', size + 1)).
newNote(m, dom, noteID) ==
    LET index == Len(m) + 1
        dom1 == Append(dom, createNote(noteID, DefaultNoteTitle, "", "", index))
        m1 == MapSet(m, Len(m) + 1, noteID)
        r == indexNotes(m1, dom1)
    IN  Outcome(m1, r.dom, r.err)

\* ------------------------------------------------------------ deleteNote
\* The loop of deleteNote: for key = 1..originalNoteIndex.size, keep the
\* entries below index and shift the entries above it down by one.
RECURSIVE deleteNoteRebuild(_, _, _, _)
deleteNoteRebuild(original, index, key, m) ==
    IF key > Len(original)
    THEN m
    ELSE LET v == MapGet(original, key)
             m1 == IF v # Undefined /\ LessThanAttr(key, index)
                   THEN MapSet(m, key, v)
                   ELSE IF v # Undefined /\ GreaterThanAttr(key, index)
                        THEN MapSet(m, key - 1, v)
                        ELSE m
         IN  deleteNoteRebuild(original, index, key + 1, m1)

deleteNote(m, dom, noteID) ==
    LET j == getElementById(dom, noteID)
    IN  IF j = 0
        THEN \* note.remove() on null
             Outcome(m, dom, "TypeError")
        ELSE LET dom1 == RemoveAt(dom, j)
                 index == dom[j].noteIndex
                 m1 == deleteNoteRebuild(m, index, 1, <<>>)
                 r == indexNotes(m1, dom1)
             IN  Outcome(m1, r.dom, r.err)

\* -------------------------------------------------------------- moveNote
\* newIndex <= size ? newIndex : size. There is no lower bound in the code.
clampNewIndex(m, newIndex) == IF newIndex <= Len(m) THEN newIndex ELSE Len(m)

\* The loop of the branch newIndex < oldIndex, over the entries in insertion
\* order: cachedNoteIDs.push(get(index)); set(index, cachedNoteIDs[length - 2]).
RECURSIVE moveUpLoop(_, _, _, _, _)
moveUpLoop(m, cachedNoteIDs, newIndex, oldIndex, i) ==
    IF i > Len(m)
    THEN m
    ELSE LET index == m[i].k
         IN  IF index > newIndex + 1 /\ index <= oldIndex
             THEN LET pushed == Append(cachedNoteIDs, MapGet(m, index))
                  IN  moveUpLoop(MapSet(m, index, pushed[Len(pushed) - 1]),
                                 pushed, newIndex, oldIndex, i + 1)
             ELSE moveUpLoop(m, cachedNoteIDs, newIndex, oldIndex, i + 1)

\* The index update of the branch newIndex < oldIndex (lines 303-314).
moveUpIndex(m, oldIndex, newIndex) ==
    LET cachedMovedNoteID == MapGet(m, oldIndex)
        cachedNoteID == MapGet(m, newIndex)
        cachedNoteIDs == <<MapGet(m, newIndex + 1)>>
        m1 == MapSet(m, newIndex + 1, cachedNoteID)
        m2 == MapSet(m1, newIndex, cachedMovedNoteID)
    IN  moveUpLoop(m2, cachedNoteIDs, newIndex, oldIndex, 1)

\* The loop of the other branch (lines 319-325), over the entries in
\* insertion order.
RECURSIVE moveDownLoop(_, _, _, _, _)
moveDownLoop(m, cachedMovedNoteID, newIndex, oldIndex, i) ==
    IF i > Len(m)
    THEN m
    ELSE LET index == m[i].k
             m1 == IF index >= oldIndex /\ index < newIndex
                   THEN MapSet(m, index, MapGet(m, index + 1))
                   ELSE IF index = newIndex
                        THEN MapSet(m, index, cachedMovedNoteID)
                        ELSE m
         IN  moveDownLoop(m1, cachedMovedNoteID, newIndex, oldIndex, i + 1)

moveDownIndex(m, oldIndex, newIndex) ==
    moveDownLoop(m, MapGet(m, oldIndex), newIndex, oldIndex, 1)

\* The notes container after the note (the j-th child) has been removed and
\* re-inserted relative to currentNote (the c-th child of the container as it
\* was before the removal; 0 is null). before = TRUE is
\* insertBefore(note, currentNote), FALSE is
\* insertBefore(note, currentNote.nextSibling). The result is the children and
\* the error the insertion ended with.
moveNoteInDOM(dom, j, c, note, before) ==
    LET dom1 == RemoveAt(dom, j)
        c1 == IF c > j THEN c - 1 ELSE c
    IN  IF before
        THEN IF c = 0
             THEN \* insertBefore(note, null) appends
                  [dom |-> Append(dom1, note), err |-> "none"]
             ELSE IF c = j
                  THEN \* the reference child is the detached note itself
                       [dom |-> dom1, err |-> "NotFoundError"]
                  ELSE [dom |-> InsertAt(dom1, c1, note), err |-> "none"]
        ELSE IF c = 0
             THEN \* null.nextSibling
                  [dom |-> dom1, err |-> "TypeError"]
             ELSE IF c = j
                  THEN \* a detached node has no next sibling: append
                       [dom |-> Append(dom1, note), err |-> "none"]
                  ELSE [dom |-> InsertAt(dom1, c1 + 1, note), err |-> "none"]

moveNote(m, dom, noteID, oldIndex, requestedIndex) ==
    LET j == getElementById(dom, noteID)
    IN  IF j = 0
        THEN \* if (note) { ... }
             Outcome(m, dom, "none")
        ELSE LET newIndex == clampNewIndex(m, requestedIndex)
                 c == querySelectorNoteIndex(dom, newIndex)
                 note == [dom[j] EXCEPT !.noteIndex = UndefinedString,
                                        !.value = Num(newIndex),
                                        !.defaultValue = Num(newIndex)]
                 placed == moveNoteInDOM(dom, j, c, note, newIndex < oldIndex)
             IN  IF placed.err # "none"
                 THEN Outcome(m, placed.dom, placed.err)
                 ELSE LET m1 == IF newIndex < oldIndex
                                THEN moveUpIndex(m, oldIndex, newIndex)
                                ELSE moveDownIndex(m, oldIndex, newIndex)
                          r == indexNotes(m1, placed.dom)
                      IN  Outcome(m1, r.dom, r.err)

\* The change listener of a note's position input (lines 1026-1041): the user
\* has typed typed into the input of the j-th rendered note.
moveNoteChange(m, dom, j, typed) ==
    LET dom1 == [dom EXCEPT ![j].value = Num(typed)]
        default == dom[j].defaultValue
    IN  IF default.tag # "num"
        THEN \* parseInt('') is NaN: the querySelector finds nothing, .id throws
             Outcome(m, dom1, "TypeError")
        ELSE LET oldIndex == default.n
                 q == querySelectorNoteIndex(dom1, oldIndex)
             IN  IF q = 0
                 THEN Outcome(m, dom1, "TypeError")
                 ELSE moveNote(m, dom1, dom1[q].id, oldIndex, typed)

\* ------------------------------------------------------- notepad records
\* A notepad id is 'notepad' + time; it is kept as the time. UndefinedKey is
\* the string "undefined": what undefined becomes as a property name and as
\* the id attribute of #notepad.
UndefinedKey == -1
\* What Number(dataset.notepadCreated) gives once the attribute was set from
\* undefined.
NotANumber == -1

\* A notepad title: a text followed by copies times the marker ' (Copy)'.
NotepadTitle(text, copies) == [text |-> text, copies |-> copies]

\* A parsed record is kept with the set of the fields it lacks; a field it
\* lacks reads as undefined, whatever is kept for it here.
Fields == {"id", "title", "created", "lastUpdate", "notes"}

NotepadRecord(lacks, id, title, created, lastUpdate, notes) ==
    [lacks |-> lacks, id |-> id, title |-> title, created |-> created,
     lastUpdate |-> lastUpdate, notes |-> notes]

\* The property name record.id gives: notepads[record.id].
ReadID(record) == IF "id" \in record.lacks THEN UndefinedKey ELSE record.id

\* undefined as the id of a record that has none: it is == to no string, and
\* as a property name it is 'undefined'.
UndefinedID == -2

PropertyName(id) == IF id = UndefinedID THEN UndefinedKey ELSE id

\* Property names every parsed object inherits from Object.prototype:
\* '__proto__', whose assignment sets the prototype of the object and gives it
\* no property of its own, and 'constructor', which reads as a function until
\* the object has a property of that name.
ProtoKey == -3
ConstructorKey == -4
InheritedKeys == {ProtoKey, ConstructorKey}

\* record.id as a value: notepad.id of a line of the notepads list.
IDOf(record) == IF "id" \in record.lacks THEN UndefinedID ELSE record.id

\* #notepad and #header: the id, the two timestamps of the dataset, the title.
OpenNotepad(id, created, lastUpdate, title) ==
    [id |-> id, created |-> created, lastUpdate |-> lastUpdate, title |-> title]

\* generateID('notepad', undefined, Date.now())
generateNotepadID(time) == time

\* hexColorRegex.test(c) and c.toLowerCase(), on the colours the model uses.
IsHexColor(c) ==
    c \in {DefaultAccentColors[i] : i \in 2..Len(DefaultAccentColors)} \cup {"#FDE6E6"}

toLowerCase(c) == IF c = "#FDE6E6" THEN "#fde6e6" ELSE c

\* #retrieveNotepad: the record of the open notepad, its notes in document
\* order.
retrieveNotepadRecord(open, dom, currentTime) ==
    NotepadRecord({}, open.id, open.title,
                  IF open.created = NotANumber THEN currentTime ELSE open.created,
                  currentTime,
                  [i \in 1..Len(dom) |->
                      [id |-> dom[i].id, title |-> dom[i].title,
                       content |-> dom[i].content,
                       accentColor |-> dom[i].accentColor]])

\* The open notepad a handler leaves: #notepad, the index, the container and
\* the error the handler ended with.
Opened(open, m, dom, err) == [notepad |-> open, index |-> m, dom |-> dom, err |-> err]

\* newNote(noteProperties) with the properties of a record's note: an id that
\* is missing or empty is generated, a colour that is no hex colour becomes ''.
newNoteWith(m, dom, noteProperties, time) ==
    LET index == Len(m) + 1
        noteID == IF noteProperties.id = Undefined
                  THEN generateID(time, index)
                  ELSE noteProperties.id
        accentColor == IF IsHexColor(noteProperties.accentColor)
                       THEN toLowerCase(noteProperties.accentColor)
                       ELSE ""
        dom1 == Append(dom, createNote(noteID, noteProperties.title,
                                       noteProperties.content, accentColor, index))
        m1 == MapSet(m, Len(m) + 1, noteID)
        r == indexNotes(m1, dom1)
    IN  Outcome(m1, r.dom, r.err)

\* A new notepad left without its first note.
newNotepadWithoutNote(addNewNote, time) ==
    Opened(OpenNotepad(generateNotepadID(time), time, time,
                       NotepadTitle(DefaultNotepadTitle, 0)),
           <<>>, <<>>, "none")
\* newNotepad(addNewNote): a new id and new timestamps, the default title, an
\* empty container and index, and one new note when asked for.
newNotepad(addNewNote, time) ==
    LET r == IF addNewNote
             THEN newNote(<<>>, <<>>, generateID(time, 1))
             ELSE Outcome(<<>>, <<>>, "none")
    IN  Opened(OpenNotepad(generateNotepadID(time), time, time,
                           NotepadTitle(DefaultNotepadTitle, 0)),
               r.index, r.dom, r.err)

\* notepad.notes.forEach(noteProperties => newNote(noteProperties)), from the
\* i-th note on; a call that throws ends the loop.
RECURSIVE fillNotes(_, _, _, _, _)
fillNotes(m, dom, notes, i, time) ==
    IF i > Len(notes)
    THEN Outcome(m, dom, "none")
    ELSE LET r == newNoteWith(m, dom, notes[i], time)
         IN  IF r.err # "none" THEN r ELSE fillNotes(r.index, r.dom, notes, i + 1, time)

\* The notes of the record put in from the last to the first.
fillNotepadBackwards(record, time) ==
    LET open == OpenNotepad(ReadID(record), record.created, record.lastUpdate,
                            record.title)
        r == fillNotes(<<>>, <<>>,
                       [i \in 1..Len(record.notes) |->
                           record.notes[Len(record.notes) + 1 - i]],
                       1, time)
    IN  Opened(open, r.index, r.dom, r.err)
\* #fillNotepad(notepad, true): newNotepad(false), then the id, the
\* timestamps and the title of the record as they read, then its notes.
fillNotepad(record, time) ==
    LET open == OpenNotepad(
                    ReadID(record),
                    IF "created" \in record.lacks THEN NotANumber ELSE record.created,
                    IF "lastUpdate" \in record.lacks THEN NotANumber ELSE record.lastUpdate,
                    IF "title" \in record.lacks
                    THEN NotepadTitle("undefined", 0)
                    ELSE record.title)
        r == IF "notes" \in record.lacks
             THEN Outcome(<<>>, <<>>, "none")
             ELSE fillNotes(<<>>, <<>>, record.notes, 1, time)
    IN  Opened(open, r.index, r.dom, r.err)

\* ------------------------------------------------------ the stored notepads
\* The item 'notepads' of the local storage, parsed: a function from its keys
\* to the records. A write replaces the whole item or, when setItem throws,
\* changes nothing and shows an alert. The records are JSON values, which
\* JSON.stringify and JSON.parse give back as they are; what is written is the
\* object's own properties, which an assignment to '__proto__' is not.
Put(notepads, key, record) ==
    IF key = ProtoKey
    THEN notepads
    ELSE [k \in DOMAIN notepads \cup {key} |-> IF k = key THEN record ELSE notepads[k]]

Delete(notepads, key) == [k \in DOMAIN notepads \ {key} |-> notepads[k]]

\* An alert, with the stored notepads as they are when it is shown.
Alert(message, notepads) == [message |-> message, store |-> notepads]

Stored(notepads, alerts) == [store |-> notepads, shown |-> alerts]

\* A write whose exception is not caught: the caller gets it.
setItemUncaught(notepads, written, writeOK) ==
    IF writeOK
    THEN [store |-> written, shown |-> <<>>, threw |-> FALSE]
    ELSE [store |-> notepads, shown |-> <<>>, threw |-> TRUE]

\* try { localStorage.setItem('notepads', ...) } catch (error) { alert(...) }
setItem(notepads, written, writeOK) ==
    IF writeOK
    THEN [store |-> written, shown |-> <<>>, threw |-> FALSE]
    ELSE [store |-> notepads,
          shown |-> <<Alert("Local storage error.", notepads)>>,
          threw |-> FALSE]

\* #storeNotepad(notepad)
storeNotepad(notepads, record, writeOK) ==
    setItem(notepads, Put(notepads, ReadID(record), record), writeOK)

\* #removeStoredNotepad(notepadID)
removeStoredNotepad(notepads, notepadID, writeOK) ==
    setItem(notepads, Delete(notepads, notepadID), writeOK)

\* #replaceStoredNotepads(notepads)
replaceStoredNotepads(notepads, replacement, writeOK) ==
    setItem(notepads, replacement, writeOK)

\* #updateNotepadsList builds one line per key from notepads[notepads[key].id]:
\* it throws a TypeError when that is undefined.
updateNotepadsListThrows(notepads) ==
    \E key \in DOMAIN notepads : ReadID(notepads[key]) \notin DOMAIN notepads

\* --------------------------------------------------- the notepad handlers
\* What a handler leaves: the open notepad, the stored notepads, the alerts it
\* showed, the error it ended with ("none" when it returned) and whether
\* mutations of the header or of the notes container are queued for the
\* notepad observer.
App(open, m, dom, notepads, alerts, err, queued) ==
    [notepad |-> open, index |-> m, dom |-> dom, store |-> notepads,
     shown |-> alerts, err |-> err, observed |-> queued]

\* The callback of the notepad observer: the last update is set to now and
\* #storeNotepad() stores the record retrieved from the document.
autosave(a, writeOK, time) ==
    LET open == [a.notepad EXCEPT !.lastUpdate = time]
        w == storeNotepad(a.store, retrieveNotepadRecord(open, a.dom, time), writeOK)
    IN  App(open, a.index, a.dom, w.store, w.shown,
            IF w.threw THEN "StorageError" ELSE "none", FALSE)

\* The inner importNotepad of #importNotepad: fill, store the parsed record
\* as it is, rebuild the notepads list.
importRecord(a, record, writeOK, time) ==
    LET f == fillNotepad(record, time)
        w == storeNotepad(a.store, record, writeOK)
    IN  IF f.err # "none"
        THEN App(f.notepad, f.index, f.dom, a.store, <<>>, f.err, TRUE)
        ELSE App(f.notepad, f.index, f.dom, w.store, w.shown,
                 IF w.threw THEN "StorageError"
                 ELSE IF updateNotepadsListThrows(w.store) THEN "TypeError"
                 ELSE "none",
                 TRUE)

Choices == {"Keep both notepads", "Replace existing notepad", "Cancel"}

\* The callback #importNotepad hands to uploadLocalFile, with the choice the
\* user makes when the dialog is shown. uploadLocalFile catches what the
\* callback throws; what a control of the dialog throws is not caught.
importNotepad(a, record, choice, writeOK, time) ==
    LET quiet == App(a.notepad, a.index, a.dom, a.store, <<>>, "none", FALSE)
        direct == importRecord(a, record, writeOK, time)
    IN  IF "notes" \in record.lacks
        THEN [quiet EXCEPT !.shown = <<Alert("Error - Notepad not imported.", a.store)>>]
        ELSE IF ReadID(record) \notin DOMAIN a.store
        THEN IF direct.err = "none"
             THEN direct
             ELSE [direct EXCEPT
                      !.shown = Append(@, Alert("File not uploaded.", direct.store)),
                      !.err = "none"]
        ELSE CASE choice = "Keep both notepads" ->
                      importRecord(a, [record EXCEPT !.id = generateNotepadID(time),
                                                     !.lacks = @ \ {"id"}],
                                   writeOK, time)
               [] choice = "Replace existing notepad" ->
                      importRecord(a, record, writeOK, time)
               [] OTHER -> quiet

\* The action restoreNotepads hands to dataFallbackMode, given data:
\* #replaceStoredNotepads(data); #updateNotepadsList(); newNotepad(true).
restoreAction(a, data, writeOK, time) ==
    LET w == replaceStoredNotepads(a.store, data, writeOK)
        n == newNotepad(TRUE, time)
    IN  IF w.threw \/ updateNotepadsListThrows(w.store)
        THEN [app |-> [a EXCEPT !.store = w.store, !.shown = @ \o w.shown],
              threw |-> TRUE]
        ELSE [app |-> App(n.notepad, n.index, n.dom, w.store, a.shown \o w.shown,
                          "none", FALSE),
              threw |-> FALSE]

\* The callback #restoreNotepads hands to uploadLocalFile: an empty backup is
\* passed over; otherwise dataFallbackMode(getAllStoredNotepads(), notepads,
\* action) of src/js/utilities.js, whose exception uploadLocalFile catches.
restoreNotepads(a, backup, firstWriteOK, secondWriteOK, time) ==
    LET quiet == App(a.notepad, a.index, a.dom, a.store, <<>>, "none", FALSE)
        first == restoreAction(quiet, backup, firstWriteOK, time)
        second == restoreAction(first.app, a.store, secondWriteOK, time)
    IN  IF DOMAIN backup = {}
        THEN quiet
        ELSE IF ~first.threw
        THEN first.app
        ELSE IF second.threw
        THEN [second.app EXCEPT
                 !.shown = Append(@, Alert("File not uploaded.", second.app.store))]
        ELSE [second.app EXCEPT
                 !.shown = Append(@, Alert("The action could not be performed.",
                                           second.app.store))]

\* #duplicateNotepad(notepad): the record the copy is stored as.
duplicatedNotepad(record, time) ==
    [record EXCEPT
        !.lacks = @ \ {"id", "title", "created", "lastUpdate"},
        !.id = generateNotepadID(time),
        !.title = IF "title" \in record.lacks
                  THEN NotepadTitle("undefined", 1)
                  ELSE NotepadTitle(record.title.text, record.title.copies + 1),
        !.created = time,
        !.lastUpdate = time]

\* The Duplicate control of a line of the notepads list:
\* #duplicateNotepad(#getStoredNotepad(notepad.id)); #updateNotepadsList().
duplicateNotepad(a, key, writeOK, time) ==
    LET w == storeNotepad(a.store, duplicatedNotepad(a.store[key], time), writeOK)
    IN  App(a.notepad, a.index, a.dom, w.store, w.shown,
            IF w.threw THEN "StorageError"
            ELSE IF updateNotepadsListThrows(w.store) THEN "TypeError"
            ELSE "none",
            FALSE)

\* deleteNotepad(notepadID): a new notepad when the open one is deleted, then
\* #removeStoredNotepad(notepadID). The id of a record without one is
\* undefined, which is not == to the 'undefined' the open notepad has for id.
deleteNotepad(a, notepadID, writeOK, time) ==
    LET n == IF notepadID = a.notepad.id
             THEN newNotepad(TRUE, time)
             ELSE Opened(a.notepad, a.index, a.dom, "none")
        w == removeStoredNotepad(a.store, PropertyName(notepadID), writeOK)
    IN  App(n.notepad, n.index, n.dom, w.store, w.shown,
            IF w.threw THEN "StorageError" ELSE "none", FALSE)

\* #changeNoteAccentColor(noteID): the colour after the note's colour in
\* #accentColors, the first one after the last and for a colour not listed.
nextAccentColor(colors, currentColor) ==
    IF \E i \in 1..(Len(colors) - 1) : colors[i] = currentColor
    THEN colors[(CHOOSE i \in 1..(Len(colors) - 1) :
                    /\ colors[i] = currentColor
                    /\ \A j \in 1..(i - 1) : colors[j] # currentColor) + 1]
    ELSE colors[1]

\* -------------------------------------------------------- dataFallbackMode
\* What an action handed to dataFallbackMode does with the data it is given:
\* it returns after it has put the data in place, or it throws before it has
\* changed anything, after it has put the data in place, or part-way.
Behaviours == {"returns", "throwsBefore", "throwsAfter", "throwsPartway"}

\* The state an action that threw part-way leaves.
Partway == "partway"

\* action(data), run on state: the state it leaves and whether it threw.
runAction(state, data, behaviour) ==
    [state |-> CASE behaviour = "throwsBefore"  -> state
                 [] behaviour = "throwsPartway" -> Partway
                 [] OTHER                       -> data,
     threw |-> behaviour # "returns"]

\* What a call of dataFallbackMode ends with: the state, the calls it made in
\* the order it made them, and whether an exception left the function.
Ended(state, log, escaped) == [state |-> state, log |-> log, escaped |-> escaped]

\* try { action(newData) } catch (error) { action(oldData); alert(...) }
dataFallbackMode(state, oldData, newData, onNew, onOld) ==
    LET first == runAction(state, newData, onNew)
        second == runAction(first.state, oldData, onOld)
    IN  IF ~first.threw
        THEN Ended(first.state, <<"action(newData)">>, FALSE)
        ELSE IF second.threw
             THEN Ended(second.state, <<"action(newData)", "action(oldData)">>, TRUE)
             ELSE Ended(second.state,
                        <<"action(newData)", "action(oldData)", "alert">>, FALSE)

\* try { action(newData) } catch (error) { console.error(...); action(oldData) }
dataFallbackModeLogging(state, oldData, newData, onNew, onOld) ==
    LET first == runAction(state, newData, onNew)
        second == runAction(first.state, oldData, onOld)
    IN  IF ~first.threw
        THEN Ended(first.state, <<"action(newData)">>, FALSE)
        ELSE Ended(second.state,
                   <<"action(newData)", "console.error", "action(oldData)">>,
                   second.threw)

\* ---------------------------------------------------------------- debounce
\* The timers of the event loop that have neither fired nor been cleared: the
\* id setTimeout returned, the time from which the timer may fire, and the
\* arguments its callback closes over.
setTimeout(timerSet, id, due, args) ==
    timerSet \cup {[id |-> id, due |-> due, args |-> args]}

clearTimeout(timerSet, id) == {t \in timerSet : t.id # id}

\* executedFunction without its clearTimeout(timeout): the timer of the call
\* before stays.
executedFunctionKeepingTimer(timerSet, pendingTimeout, id, time, args) ==
    [timers |-> setTimeout(timerSet, id, time + Wait, args),
     timeout |-> id]

\* executedFunction(...args):
\*     clearTimeout(timeout); timeout = setTimeout(later, wait);
executedFunction(timerSet, pendingTimeout, id, time, args) ==
    [timers |-> setTimeout(clearTimeout(timerSet, pendingTimeout), id, time + Wait, args),
     timeout |-> id]

\* later(), the callback of timer t:  clearTimeout(timeout); func(...args);
later(timerSet, pendingTimeout, t) == clearTimeout(timerSet \ {t}, pendingTimeout)

\* ------------------------------------------------------------ utilities
\* A text is the sequence of its code points: the regular expression of
\* countWords has the u flag.

\* [a-zA-Z0-9\u00C0-\u017F]
IsLatinOrDigit(c) ==
    \/ c >= 97 /\ c <= 122
    \/ c >= 65 /\ c <= 90
    \/ c >= 48 /\ c <= 57
    \/ c >= 192 /\ c <= 383

\* \p{Extended_Pictographic}, of the code points used here: the party popper,
\* the heavy black heart, the man.
ExtendedPictographic == {127881, 10084, 128104}

\* [a-zA-Z0-9\u00C0-\u017F\p{Extended_Pictographic}\u{1F3FB}-\u{1F3FF}\u{1F9B0}-\u{1F9B3}]
IsWordCharacter(c) ==
    \/ IsLatinOrDigit(c)
    \/ c \in ExtendedPictographic
    \/ c >= 127995 /\ c <= 127999
    \/ c >= 129456 /\ c <= 129459

\* [\n\s], of the code points below 256
IsWhiteSpace(c) == c \in {9, 10, 11, 12, 13, 32, 160}

\* Where the longest run of characters of a class that begins at i ends: the
\* position after its last character (a greedy quantifier).
RunEnd(string, i, InClass(_)) ==
    CHOOSE j \in i..(Len(string) + 1) :
        /\ \A k \in i..(j - 1) : InClass(string[k])
        /\ j = Len(string) + 1 \/ ~InClass(string[j])

\* The regular expression tried at position i: [\n\s]{0,} takes the longest
\* run of white space and gives characters back while no word character
\* follows; then the longest run of word characters, then the longest run of
\* white space. The position after the match, 0 when there is none.
regexExec(string, i) ==
    LET spaces == RunEnd(string, i, IsWhiteSpace)
        starts == {k \in i..spaces : k <= Len(string) /\ IsWordCharacter(string[k])}
    IN  IF starts = {}
        THEN 0
        ELSE LET first == CHOOSE k \in starts : \A j \in starts : j <= k
             IN  RunEnd(string, RunEnd(string, first, IsWordCharacter), IsWhiteSpace)

\* targetString.match(regex) with the g flag: every match, each searched from
\* the end of the one before. The number of the matches from lastIndex on.
RECURSIVE match(_, _)
match(string, lastIndex) ==
    IF lastIndex > Len(string)
    THEN 0
    ELSE LET end == regexExec(string, lastIndex)
         IN  IF end = 0
             THEN match(string, lastIndex + 1)
             ELSE 1 + match(string, end)

\* A count of the runs of characters that are not white space.
countWordsBetweenSpaces(targetString) ==
    Cardinality({i \in 1..Len(targetString) :
                    /\ ~IsWhiteSpace(targetString[i])
                    /\ i = 1 \/ IsWhiteSpace(targetString[i - 1])})
\* countWords(targetString): (targetString.match(regex) || '').length
countWords(targetString) == match(targetString, 1)

\* Math.ceil(n / d) for n >= 0 and d > 0
ceil(n, d) == (n + d - 1) \div d

\* getReadTime of src/js/utilities.js: Math.ceil(wordNumber / (283 / 60))
getReadTime(targetString) == ceil(countWords(targetString) * 60, 283)

\* getReadTime of the later version of the module: the seconds at 238 words
\* per minute, formatted as minutes and seconds.
getReadTimeFormatted(targetString) ==
    LET seconds == ceil(countWords(targetString) * 60, 238)
        minutes == seconds \div 60
        remainingSeconds == seconds % 60
    IN  IF minutes > 0
        THEN <<minutes, "m ", remainingSeconds, "s">>
        ELSE <<remainingSeconds, "s">>

\* ----------------------------------------------------------------- state
VARIABLES
    notesContainerIndex,    \* #notesContainerIndex: the Position Index (a Map)
    notesContainer,         \* the children of #notesContainer, in document order
    now,                    \* the clock Date.now() reads
    error,                  \* the error the last call ended with, "none" if it returned
    aftermath,              \* calls made since the one that failed part-way, it included
    last                    \* the last call: the operation and, for moveNote, oldIndex and newIndex

\* The notepad as a whole
VARIABLES
    notepad,                \* #notepad and #header: id, created, lastUpdate, title
    store,                  \* the item 'notepads' of the local storage, parsed
    shown,                  \* the alerts the last handler showed, in order
    observed,               \* mutations are queued for the notepad observer
    failedWrites,           \* how many writes the local storage has refused
    storeCall               \* the last handler: what it was called with

\* dataFallbackMode
VARIABLES
    target,                 \* the state the action handed to dataFallbackMode works on
    reports,                \* what the last call of dataFallbackMode did, in order
    escaped,                \* whether an exception left the last call
    fallbackCall            \* the last call: its version, its data, what the action did

\* debounce
VARIABLES
    clock,                  \* the clock of the event loop
    timers,                 \* the timers that have neither fired nor been cleared
    timeout,                \* the variable timeout of the closure, 0 while undefined
    calls,                  \* the calls of executedFunction so far
    invocations             \* the invocations of func so far

\* The counters of a note
VARIABLES
    noteText,               \* the text of the note, as code points
    wordCounter,            \* what the word counter shows
    readTimeCounter,        \* what the time counter shows (src/js/utilities.js)
    formattedTimeCounter    \* what it shows with the later version of the module

\* The persistence adapter called on its own, and StorageDB
VARIABLES
    got,                    \* what the last #getStoredNotepad returned
    adapterCall,            \* the last call of the adapter: what it was called with
    db,                     \* this.db: 0 while null, then the handle of the database
    opened,                 \* how many times indexedDB.open was called: its handles are 1..opened
    objectStore,            \* the object store 'notepads' of the database, by key
    dbCalls,                \* the calls made on the StorageDB instance, in order
    dbLast                  \* the last transaction run on the object store

orderVars == <<notesContainerIndex, notesContainer, now, error, aftermath, last>>
notepadVars == <<notepad, store, shown, observed, failedWrites, storeCall>>
fallbackVars == <<target, reports, escaped, fallbackCall>>
debounceVars == <<clock, timers, timeout, calls, invocations>>
counterVars == <<noteText, wordCounter, readTimeCounter, formattedTimeCounter>>
storageVars == <<got, adapterCall, db, opened, objectStore, dbCalls, dbLast>>

vars == <<orderVars, notepadVars, fallbackVars, debounceVars, counterVars, storageVars>>

\* What the calls on the notes of the open notepad leave alone.
orderFrame == <<store, shown, observed, failedWrites, storeCall, fallbackVars, debounceVars,
                counterVars, storageVars>>
\* What a handler of the notepad as a whole leaves alone.
notepadFrame == <<aftermath, last, fallbackVars, debounceVars, counterVars, storageVars>>
\* What a call of dataFallbackMode on its own leaves alone.
fallbackFrame == <<orderVars, notepadVars, debounceVars, counterVars, storageVars>>
\* What the debounced function and its timers leave alone.
debounceFrame == <<orderVars, notepadVars, fallbackVars, counterVars, storageVars>>
\* What the counters of a note leave alone.
counterFrame == <<orderVars, notepadVars, fallbackVars, debounceVars, storageVars>>
\* What a call of the persistence adapter on its own leaves alone.
adapterFrame == <<orderVars, notepad, observed, storeCall, fallbackVars, debounceVars,
                  counterVars, db, opened, objectStore, dbCalls, dbLast>>
\* What a call on the StorageDB instance leaves alone.
storageFrame == <<orderVars, notepadVars, fallbackVars, debounceVars, counterVars,
                  got, adapterCall>>

\* An id that names no note: no note is created at this time.
AbsentID == generateID(MaxTime + 1, 1)

Call(op, from, to) == [op |-> op, from |-> from, to |-> to]

\* A record that lacks every field: the place of a record in a call made
\* without one.
NoRecord == NotepadRecord(Fields, 0, NotepadTitle("", 0), 0, 0, <<>>)

\* What a lookup returns: a record, undefined, or what Object.prototype holds
\* under the name.
Found(record) == [tag |-> "record", record |-> record]
NothingFound == [tag |-> "undefined", record |-> NoRecord]
InheritedValue == [tag |-> "inherited", record |-> NoRecord]

\* The last call of the persistence adapter.
AdapterCall(op, id, record, writeOK) ==
    [op |-> op, id |-> id, record |-> record, writeOK |-> writeOK]

\* The last handler of the notepad as a whole: its name, whether the local
\* storage takes its writes (one value for each write it may make, in order),
\* the record or the backup it was given, the choice made in the dialog, how
\* many times the Import, Restore, Duplicate and Delete controls have been
\* used so far, and the key the handler looks up (the id of its record).
HandlerCall(op, writes, record, backup, choice, used) ==
    [op |-> op, writes |-> writes, record |-> record, backup |-> backup,
     choice |-> choice, calls |-> used, key |-> ReadID(record)]

\* The call ends in outcome r. A call that ends with an error after it has
\* changed the index or the container leaves them part-way through an update:
\* a run has at most one such call, no other call after it ends with an error,
\* and the run goes on for at most MaxAftermath calls from that call on.
Apply(r) ==
    /\ notesContainerIndex' = r.index
    /\ notesContainer' = r.dom
    /\ error' = r.err
    /\ aftermath > 0 => r.err = "none"
    /\ aftermath' = IF /\ aftermath = 0
                       /\ \/ r.err = "none"
                          \/ /\ r.index = notesContainerIndex
                             /\ r.dom = notesContainer
                    THEN 0
                    ELSE aftermath + 1
    /\ aftermath' <= MaxAftermath

\* new Notepad(): #addNotesContainer(true) adds the first note to the empty
\* container.
Init ==
    /\ now = 0
    /\ LET r == newNote(<<>>, <<>>, generateID(0, 1))
       IN  /\ notesContainerIndex = r.index
           /\ notesContainer = r.dom
           /\ error = r.err
    /\ aftermath = 0
    /\ last = Call("init", 0, 0)
    /\ notepad = OpenNotepad(generateNotepadID(0), 0, 0, NotepadTitle(DefaultNotepadTitle, 0))
    /\ store = <<>>
    /\ shown = <<>>
    /\ observed = FALSE
    /\ failedWrites = 0
    /\ storeCall = HandlerCall("init", <<>>, NoRecord, <<>>, "", 0)
    /\ target = 0
    /\ reports = <<>>
    /\ escaped = FALSE
    /\ fallbackCall = [version |-> "none", oldData |-> 0, newData |-> 0,
                       onNew |-> "returns", onOld |-> "returns", before |-> 0]
    /\ clock = 0
    /\ timers = {}
    /\ timeout = 0
    /\ calls = <<>>
    /\ invocations = <<>>
    /\ noteText = <<>>
    /\ wordCounter = countWords(<<>>)
    /\ readTimeCounter = getReadTime(<<>>)
    /\ formattedTimeCounter = getReadTimeFormatted(<<>>)
    /\ got = NothingFound
    /\ adapterCall = AdapterCall("init", UndefinedID, NoRecord, TRUE)
    /\ db = 0
    /\ opened = 0
    /\ objectStore = <<>>
    /\ dbCalls = <<>>
    /\ dbLast = AdapterCall("init", UndefinedID, NoRecord, TRUE)

\* Time passes between two calls.
Tick ==
    /\ now < MaxTime
    /\ now' = now + 1
    /\ UNCHANGED <<notesContainerIndex, notesContainer, error, aftermath, last>>
    /\ UNCHANGED <<notepad, orderFrame>>

\* The Add note control: newNote(undefined, #notesContainer).
NewNote ==
    /\ Len(notesContainerIndex) < MaxNotes
    /\ Len(notesContainer) < MaxNotes
    /\ LET r == newNote(notesContainerIndex, notesContainer,
                        generateID(now, Len(notesContainerIndex) + 1))
       IN  Apply(r)
    /\ last' = Call("newNote", 0, 0)
    /\ UNCHANGED now
    /\ UNCHANGED <<notepad, orderFrame>>

\* deleteNote(noteID) with the id of a rendered note.
DeleteNote(noteID) ==
    /\ getElementById(notesContainer, noteID) # 0
    /\ LET r == deleteNote(notesContainerIndex, notesContainer, noteID)
       IN  Apply(r)
    /\ last' = Call("deleteNote", 0, 0)
    /\ UNCHANGED now
    /\ UNCHANGED <<notepad, orderFrame>>

\* deleteNote with an id that names no rendered note.
DeleteAbsentNote ==
    /\ LET r == deleteNote(notesContainerIndex, notesContainer, AbsentID)
       IN  Apply(r)
    /\ last' = Call("deleteAbsentNote", 0, 0)
    /\ UNCHANGED now
    /\ UNCHANGED <<notepad, orderFrame>>

\* moveNote(noteID, oldIndex, newIndex) with oldIndex the position the index
\* holds the note at and newIndex any integer.
MoveNote(noteID, oldIndex, newIndex) ==
    /\ getElementById(notesContainer, noteID) # 0
    /\ MapGet(notesContainerIndex, oldIndex) = noteID
    /\ LET r == moveNote(notesContainerIndex, notesContainer, noteID, oldIndex, newIndex)
       IN  Apply(r)
    /\ last' = Call("moveNote", oldIndex, newIndex)
    /\ UNCHANGED now
    /\ UNCHANGED <<notepad, orderFrame>>

\* moveNote with an id that names no rendered note.
MoveAbsentNote(oldIndex, newIndex) ==
    /\ LET r == moveNote(notesContainerIndex, notesContainer, AbsentID, oldIndex, newIndex)
       IN  Apply(r)
    /\ last' = Call("moveAbsentNote", 0, 0)
    /\ UNCHANGED now
    /\ UNCHANGED <<notepad, orderFrame>>

\* The user types a position into the position input of the j-th rendered
\* note. When the listener gets as far as calling moveNote the call is recorded
\* as that moveNote call.
MoveNoteChange(j, typed) ==
    /\ j \in 1..Len(notesContainer)
    /\ LET r == moveNoteChange(notesContainerIndex, notesContainer, j, typed)
           default == notesContainer[j].defaultValue
       IN  /\ Apply(r)
           /\ last' = IF /\ default.tag = "num"
                         /\ querySelectorNoteIndex(notesContainer, default.n) # 0
                      THEN Call("moveNote", default.n, typed)
                      ELSE Call("moveNoteChange", 0, 0)
    /\ UNCHANGED now
    /\ UNCHANGED <<notepad, orderFrame>>

\* newNotepad(true): empty the container, clear the index, add one new note,
\* give the notepad a new id, new timestamps and the default title.
NewNotepad ==
    /\ LET n == newNotepad(TRUE, now)
       IN  /\ Apply(Outcome(n.index, n.dom, n.err))
           /\ notepad' = n.notepad
    /\ last' = Call("newNotepad", 0, 0)
    /\ UNCHANGED now
    /\ UNCHANGED orderFrame

Next ==
    \/ Tick
    \/ NewNote
    \/ \E noteID \in NoteIDs : DeleteNote(noteID)
    \/ DeleteAbsentNote
    \/ \E noteID \in NoteIDs, oldIndex, newIndex \in Positions :
          MoveNote(noteID, oldIndex, newIndex)
    \/ \E newIndex \in Positions : MoveAbsentNote(1, newIndex)
    \/ \E j \in 1..MaxNotes, typed \in Positions : MoveNoteChange(j, typed)
    \/ NewNotepad

Spec == Init /\ [][Next]_vars

\* --------------------------------------------- the notepad as a whole
\* The state a handler starts from, and the state it leaves.
Here == App(notepad, notesContainerIndex, notesContainer, store, shown, error, observed)

Leave(a) ==
    /\ notepad' = a.notepad
    /\ notesContainerIndex' = a.index
    /\ notesContainer' = a.dom
    /\ store' = a.store
    /\ shown' = a.shown
    /\ error' = a.err
    /\ observed' = a.observed

\* A handler that changes the header or the notes container: the mutations
\* are queued for the notepad observer, nothing is stored or shown.
Mutate(open, r) ==
    /\ Leave(App(open, r.index, r.dom, store, <<>>, r.err, TRUE))
    /\ UNCHANGED failedWrites

\* The local storage takes or refuses the writes of a handler, one value for
\* each write in order; it refuses at most MaxFailedWrites writes in a run.
Refused(writes) == Cardinality({i \in 1..Len(writes) : ~writes[i]})

Writes(writes) ==
    /\ failedWrites + Refused(writes) <= MaxFailedWrites
    /\ failedWrites' = failedWrites + Refused(writes)

\* The callback of the notepad observer runs at the end of the task that
\* queued the mutations, before any other handler.
Autosave(writeOK) ==
    /\ observed
    /\ Writes(<<writeOK>>)
    /\ Leave(autosave(Here, writeOK, now))
    /\ storeCall' = HandlerCall("autosave", <<writeOK>>, NoRecord, <<>>, "", storeCall.calls)
    /\ UNCHANGED now
    /\ UNCHANGED notepadFrame

AutosaveRuns == \E writeOK \in BOOLEAN : Autosave(writeOK)

\* The user edits the title of the notepad.
EditHeader(text) ==
    /\ ~observed
    /\ notepad.title # NotepadTitle(text, 0)
    /\ Mutate([notepad EXCEPT !.title = NotepadTitle(text, 0)],
              Outcome(notesContainerIndex, notesContainer, "none"))
    /\ storeCall' = HandlerCall("editHeader", <<>>, NoRecord, <<>>, "", storeCall.calls)
    /\ UNCHANGED now
    /\ UNCHANGED notepadFrame

\* ----------------------------------------------- the notes, observed
\* The Add note control.
AddNote ==
    /\ ~observed
    /\ Len(notesContainerIndex) < MaxOpenNotes
    /\ Len(notesContainer) < MaxOpenNotes
    /\ Mutate(notepad, newNote(notesContainerIndex, notesContainer,
                               generateID(now, Len(notesContainerIndex) + 1)))
    /\ storeCall' = HandlerCall("newNote", <<>>, NoRecord, <<>>, "", storeCall.calls)
    /\ UNCHANGED now
    /\ UNCHANGED notepadFrame

\* The Delete note control of a rendered note.
RemoveNote(noteID) ==
    /\ ~observed
    /\ getElementById(notesContainer, noteID) # 0
    /\ Mutate(notepad, deleteNote(notesContainerIndex, notesContainer, noteID))
    /\ storeCall' = HandlerCall("deleteNote", <<>>, NoRecord, <<>>, "", storeCall.calls)
    /\ UNCHANGED now
    /\ UNCHANGED notepadFrame

\* moveNote(noteID, oldIndex, newIndex) on a rendered note, oldIndex the
\* position the index holds it at, newIndex a position of the notepad.
RepositionNote(noteID, oldIndex, newIndex) ==
    /\ ~observed
    /\ getElementById(notesContainer, noteID) # 0
    /\ MapGet(notesContainerIndex, oldIndex) = noteID
    /\ newIndex \in 1..Len(notesContainerIndex)
    /\ Mutate(notepad, moveNote(notesContainerIndex, notesContainer,
                                noteID, oldIndex, newIndex))
    /\ storeCall' = HandlerCall("moveNote", <<>>, NoRecord, <<>>, "", storeCall.calls)
    /\ UNCHANGED now
    /\ UNCHANGED notepadFrame

\* The user edits the title or the text of the j-th rendered note.
EditNoteTitle(j, text) ==
    /\ ~observed
    /\ j \in 1..Len(notesContainer)
    /\ notesContainer[j].title # text
    /\ Mutate(notepad, Outcome(notesContainerIndex,
                               [notesContainer EXCEPT ![j].title = text], "none"))
    /\ storeCall' = HandlerCall("editNoteTitle", <<>>, NoRecord, <<>>, "", storeCall.calls)
    /\ UNCHANGED now
    /\ UNCHANGED notepadFrame

EditNoteText(j, text) ==
    /\ ~observed
    /\ j \in 1..Len(notesContainer)
    /\ notesContainer[j].content # text
    /\ Mutate(notepad, Outcome(notesContainerIndex,
                               [notesContainer EXCEPT ![j].content = text], "none"))
    /\ storeCall' = HandlerCall("editNoteText", <<>>, NoRecord, <<>>, "", storeCall.calls)
    /\ UNCHANGED now
    /\ UNCHANGED notepadFrame

\* The accent colour control of a rendered note: the colour of the first
\* element with the id changes. The control is used on a note at most
\* MaxColourChanges times.
ChangeNoteAccentColor(noteID) ==
    /\ ~observed
    /\ getElementById(notesContainer, noteID) # 0
    /\ LET j == getElementById(notesContainer, noteID)
       IN  /\ \E i \in 1..MaxColourChanges :
                 DefaultAccentColors[i] = notesContainer[j].accentColor
           /\ Mutate(notepad,
                     Outcome(notesContainerIndex,
                             [notesContainer EXCEPT ![j].accentColor =
                                 nextAccentColor(DefaultAccentColors, @)],
                             "none"))
    /\ storeCall' = HandlerCall("changeNoteAccentColor", <<>>, NoRecord, <<>>, "", storeCall.calls)
    /\ UNCHANGED now
    /\ UNCHANGED notepadFrame

\* The New notepad control of the toolbox and of the viewer: newNotepad(true).
\* The observer is disconnected while the notepad is replaced.
NewNotepadControl ==
    /\ ~observed
    /\ storeCall.calls < MaxStoreCalls
    /\ LET n == newNotepad(TRUE, now)
       IN  Leave(App(n.notepad, n.index, n.dom, store, <<>>, n.err, FALSE))
    /\ storeCall' = HandlerCall("newNotepad", <<>>, NoRecord, <<>>, "", storeCall.calls + 1)
    /\ UNCHANGED <<now, failedWrites>>
    /\ UNCHANGED notepadFrame

\* The title of a line of the notepads list:
\* #fillNotepad(#getStoredNotepad(notepad.id), true). The observer is connected
\* again when the title and the notes of the record are put in.
OpenStoredNotepad(key) ==
    /\ ~observed
    /\ storeCall.calls < MaxStoreCalls
    /\ key \in DOMAIN store
    /\ ReadID(store[key]) = key
    /\ LET f == fillNotepad(store[key], now)
       IN  Leave(App(f.notepad, f.index, f.dom, store, <<>>, f.err, TRUE))
    /\ storeCall' = HandlerCall("openNotepad", <<>>, store[key], <<>>, "",
                                storeCall.calls + 1)
    /\ UNCHANGED <<now, failedWrites>>
    /\ UNCHANGED notepadFrame

NoteTexts == {"a"}
HeaderTexts == {"b"}

NextNotepad ==
    \/ Tick
    \/ AutosaveRuns
    \/ \E text \in HeaderTexts : EditHeader(text)
    \/ AddNote
    \/ \E noteID \in NoteIDs : RemoveNote(noteID)
    \/ \E noteID \in NoteIDs, oldIndex, newIndex \in 1..MaxOpenNotes :
          RepositionNote(noteID, oldIndex, newIndex)
    \/ \E j \in 1..MaxOpenNotes, text \in NoteTexts : EditNoteTitle(j, text)
    \/ \E j \in 1..MaxOpenNotes, text \in NoteTexts : EditNoteText(j, text)
    \/ \E noteID \in NoteIDs : ChangeNoteAccentColor(noteID)

\* The observer's callback is a microtask: it runs once the handler that
\* queued the mutations has ended.
SpecNotepad ==
    /\ Init
    /\ [][NextNotepad]_vars
    /\ WF_vars(AutosaveRuns)

\* ------------------------------------------------ the stored notepads
\* The records a file to import holds: a complete one for every notepad id,
\* and one that lacks each field in turn. The note of a complete record has
\* its colour in upper case.
SampleNotes ==
    <<[id |-> generateID(0, 1), title |-> "a", content |-> "a",
       accentColor |-> "#FDE6E6"]>>

SampleRecord(id, lacks) ==
    NotepadRecord(lacks, id, NotepadTitle("c", 0), 0, 0, SampleNotes)

ImportedRecords ==
    {SampleRecord(id, {}) : id \in Times} \cup {SampleRecord(0, {f}) : f \in Fields}

\* The backups a file to restore holds: the empty object, and every object
\* with keys among the notepad ids and under each a complete record, of that
\* id or of another, or a record that lacks its id or its title.
BackedUpRecords ==
    {SampleRecord(id, {}) : id \in Times} \cup {SampleRecord(0, {f}) : f \in {"id", "title"}}

Backups ==
    UNION {[keys -> BackedUpRecords] : keys \in SUBSET Times}

\* The lines of the notepads list, as #updateNotepadsList builds them from
\* the stored notepads: the id each line's controls are bound to.
LineIDs(notepads) ==
    {ReadID(notepads[ReadID(notepads[key])]) : key \in DOMAIN notepads}

\* The Import control, the file the user picks and the choice the user makes
\* if the dialog is shown.
ImportNotepad(record, choice, writeOK) ==
    /\ ~observed
    /\ storeCall.calls < MaxStoreCalls
    /\ choice = "" <=> ("notes" \in record.lacks \/ ReadID(record) \notin DOMAIN store)
    /\ Writes(<<writeOK>>)
    /\ Leave(importNotepad(Here, record, choice, writeOK, now))
    /\ storeCall' = HandlerCall("importNotepad", <<writeOK>>, record, <<>>, choice,
                                storeCall.calls + 1)
    /\ UNCHANGED now
    /\ UNCHANGED notepadFrame

\* The Restore control and the file the user picks. The second write is the
\* one made when the action is run again with the stored notepads.
RestoreNotepads(backup, firstWriteOK, secondWriteOK) ==
    /\ ~observed
    /\ storeCall.calls < MaxStoreCalls
    /\ secondWriteOK \/ /\ DOMAIN backup # {}
                         /\ restoreAction(Here, backup, firstWriteOK, now).threw
    /\ Writes(<<firstWriteOK, secondWriteOK>>)
    /\ Leave(restoreNotepads(Here, backup, firstWriteOK, secondWriteOK, now))
    /\ storeCall' = HandlerCall("restoreNotepads", <<firstWriteOK, secondWriteOK>>,
                                NoRecord, backup, "", storeCall.calls + 1)
    /\ UNCHANGED now
    /\ UNCHANGED notepadFrame

\* The Duplicate control of a line of the notepads list.
DuplicateControl(key, writeOK) ==
    /\ ~observed
    /\ storeCall.calls < MaxStoreCalls
    /\ ~updateNotepadsListThrows(store)
    /\ key \in LineIDs(store)
    /\ "title" \notin store[key].lacks => store[key].title.copies < MaxCopies
    /\ Writes(<<writeOK>>)
    /\ Leave(duplicateNotepad(Here, key, writeOK, now))
    /\ storeCall' = [HandlerCall("duplicateNotepad", <<writeOK>>, store[key], <<>>, "",
                                 storeCall.calls + 1) EXCEPT !.key = key]
    /\ UNCHANGED now
    /\ UNCHANGED notepadFrame

\* The Delete control of a line of the notepads list.
DeleteControl(key, writeOK) ==
    /\ ~observed
    /\ storeCall.calls < MaxStoreCalls
    /\ ~updateNotepadsListThrows(store)
    /\ key \in LineIDs(store)
    /\ Writes(<<writeOK>>)
    /\ \E line \in {store[ReadID(store[k])] : k \in DOMAIN store} :
          /\ ReadID(line) = key
          /\ Leave(deleteNotepad(Here, IDOf(line), writeOK, now))
          /\ storeCall' = [HandlerCall("deleteNotepad", <<writeOK>>, line, <<>>, "",
                                       storeCall.calls + 1) EXCEPT !.key = key]
    /\ UNCHANGED now
    /\ UNCHANGED notepadFrame

Keys == Times \cup {UndefinedKey}

NextStore ==
    \/ Tick
    \/ AutosaveRuns
    \/ \E text \in HeaderTexts : EditHeader(text)
    \/ \E record \in ImportedRecords, choice \in Choices \cup {""}, writeOK \in BOOLEAN :
          ImportNotepad(record, choice, writeOK)
    \/ \E backup \in Backups, firstWriteOK, secondWriteOK \in BOOLEAN :
          RestoreNotepads(backup, firstWriteOK, secondWriteOK)
    \/ \E key \in Keys, writeOK \in BOOLEAN : DuplicateControl(key, writeOK)
    \/ \E key \in Keys, writeOK \in BOOLEAN : DeleteControl(key, writeOK)

SpecStore == Init /\ [][NextStore]_vars

\* ------------------------------------------- dataFallbackMode on its own
Versions == {"utilities.js", "part_000"}
FallbackData == 0..MaxData

\* dataFallbackMode(oldData, newData, action), in either version of the
\* utilities, with an action that behaves as onNew when it is given newData
\* and as onOld when it is given oldData.
DataFallbackMode(version, oldData, newData, onNew, onOld) ==
    /\ LET r == IF version = "utilities.js"
                THEN dataFallbackMode(target, oldData, newData, onNew, onOld)
                ELSE dataFallbackModeLogging(target, oldData, newData, onNew, onOld)
       IN  /\ target' = r.state
           /\ reports' = r.log
           /\ escaped' = r.escaped
    /\ fallbackCall' = [version |-> version, oldData |-> oldData, newData |-> newData,
                        onNew |-> onNew, onOld |-> onOld, before |-> target]
    /\ UNCHANGED fallbackFrame

NextFallback ==
    \E version \in Versions, oldData, newData \in FallbackData, onNew, onOld \in Behaviours :
        DataFallbackMode(version, oldData, newData, onNew, onOld)

SpecFallback == Init /\ [][NextFallback]_vars

\* ------------------------------------------------- debounce on its own
Args == 1..MaxArg

\* A call of the debounced function. The id setTimeout returns is the number
\* of the call.
DebouncedCall(args) ==
    /\ Len(calls) < MaxCalls
    /\ clock + Wait <= MaxClock
    /\ LET r == executedFunction(timers, timeout, Len(calls) + 1, clock, args)
       IN  /\ timers' = r.timers
           /\ timeout' = r.timeout
    /\ calls' = Append(calls, [at |-> clock, args |-> args])
    /\ UNCHANGED <<clock, invocations>>
    /\ UNCHANGED debounceFrame

\* The event loop runs the callback of a timer, not before the timer is due.
TimerFires(t) ==
    /\ t \in timers
    /\ t.due <= clock
    /\ timers' = later(timers, timeout, t)
    /\ invocations' = Append(invocations,
                             [at |-> clock, args |-> t.args, id |-> t.id,
                              calls |-> Len(calls)])
    /\ UNCHANGED <<clock, timeout, calls>>
    /\ UNCHANGED debounceFrame

\* Time passes.
ClockTick ==
    /\ clock < MaxClock
    /\ clock' = clock + 1
    /\ UNCHANGED <<timers, timeout, calls, invocations>>
    /\ UNCHANGED debounceFrame

SomeTimerFires == \E t \in timers : TimerFires(t)

NextDebounce ==
    \/ \E args \in Args : DebouncedCall(args)
    \/ SomeTimerFires
    \/ ClockTick

\* The event loop runs the callback of a timer that is due, and time passes.
SpecDebounce ==
    /\ Init
    /\ [][NextDebounce]_vars
    /\ WF_vars(SomeTimerFires)
    /\ WF_vars(ClockTick)

\* ------------------------------------------- opening and replacing notepads
\* The notes of the open notepad are added, removed and moved, the notepad
\* is autosaved, replaced by a new one, and a stored notepad is opened.
NextViewer ==
    \/ Tick
    \/ AutosaveRuns
    \/ AddNote
    \/ \E noteID \in NoteIDs : RemoveNote(noteID)
    \/ \E noteID \in NoteIDs, oldIndex, newIndex \in 1..MaxOpenNotes :
          RepositionNote(noteID, oldIndex, newIndex)
    \/ NewNotepadControl
    \/ \E key \in Times : OpenStoredNotepad(key)

SpecViewer == Init /\ [][NextViewer]_vars /\ WF_vars(AutosaveRuns)

\* ------------------------------------------- the counters of a note
\* #runNoteCounters on the text the note holds after the input.
runNoteCounters(string) ==
    /\ noteText' = string
    /\ wordCounter' = countWords(string)
    /\ readTimeCounter' = getReadTime(string)
    /\ formattedTimeCounter' = getReadTimeFormatted(string)
    /\ UNCHANGED counterFrame

\* The characters the user types: H, 9, e with acute accent, the party
\* popper, a skin tone modifier, the space, the line feed, the hyphen and the
\* zero width joiner.
TypedCharacters == {72, 57, 233, 127881, 127997, 32, 10, 45, 8205}

\* "Hello world" followed by a space and the party popper
HelloWorld == <<72, 101, 108, 108, 111, 32, 119, 111, 114, 108, 100, 32, 127881>>

\* n times the word "a", with a space between two words
WordsOfA(n) == [i \in 1..(IF n = 0 THEN 0 ELSE 2 * n - 1) |-> IF i % 2 = 1 THEN 97 ELSE 32]

PastedTexts == {HelloWorld} \cup {WordsOfA(n) : n \in 0..MaxWords}

\* The user types a character at the end of the text of the note.
TypeCharacter(c) ==
    /\ Len(noteText) < MaxTextLen
    /\ runNoteCounters(Append(noteText, c))

\* The user replaces the text of the note with a pasted one.
PasteText(string) ==
    /\ noteText # string
    /\ runNoteCounters(string)

NextCounters ==
    \/ \E c \in TypedCharacters : TypeCharacter(c)
    \/ \E string \in PastedTexts : PasteText(string)

SpecCounters == Init /\ [][NextCounters]_vars

\* ------------------------------------- the persistence adapter on its own
\* #getStoredNotepad(notepadID): notepads[notepadID] of the parsed item, which
\* is the object's own property, or else what the object inherits.
getStoredNotepad(notepads, notepadID) ==
    IF PropertyName(notepadID) \in DOMAIN notepads
    THEN Found(notepads[PropertyName(notepadID)])
    ELSE IF notepadID \in InheritedKeys
    THEN InheritedValue
    ELSE NothingFound

\* The records the adapter is given: of every id, one of them with two
\* titles, and one without an id.
AdapterRecords ==
    {SampleRecord(id, {}) : id \in Times \cup InheritedKeys}
        \cup {[SampleRecord(0, {}) EXCEPT !.title = NotepadTitle("c", 1)],
              SampleRecord(0, {"id"})}

\* The ids the adapter is asked for: those of the records and 'undefined'.
AdapterIDs == {IDOf(record) : record \in AdapterRecords} \cup {UndefinedKey}

StoreNotepad(record, writeOK) ==
    /\ Writes(<<writeOK>>)
    /\ LET w == storeNotepad(store, record, writeOK)
       IN  /\ store' = w.store
           /\ shown' = w.shown
    /\ adapterCall' = AdapterCall("storeNotepad", IDOf(record), record, writeOK)
    /\ UNCHANGED got
    /\ UNCHANGED adapterFrame

RemoveStoredNotepad(notepadID, writeOK) ==
    /\ Writes(<<writeOK>>)
    /\ LET w == removeStoredNotepad(store, PropertyName(notepadID), writeOK)
       IN  /\ store' = w.store
           /\ shown' = w.shown
    /\ adapterCall' = AdapterCall("removeStoredNotepad", notepadID, NoRecord, writeOK)
    /\ UNCHANGED got
    /\ UNCHANGED adapterFrame

GetStoredNotepad(notepadID) ==
    /\ got' = getStoredNotepad(store, notepadID)
    /\ adapterCall' = AdapterCall("getStoredNotepad", notepadID, NoRecord, TRUE)
    /\ UNCHANGED <<store, shown, failedWrites>>
    /\ UNCHANGED adapterFrame

NextAdapter ==
    \/ \E record \in AdapterRecords, writeOK \in BOOLEAN : StoreNotepad(record, writeOK)
    \/ \E notepadID \in AdapterIDs, writeOK \in BOOLEAN :
          RemoveStoredNotepad(notepadID, writeOK)
    \/ \E notepadID \in AdapterIDs : GetStoredNotepad(notepadID)

SpecAdapter == Init /\ [][NextAdapter]_vars

\* --------------------------------------------------------------- StorageDB
\* A call of init, set, get, getAll or delete: its argument (an id or a
\* value), where it stands, the handle init() gave it (0 until then) and what
\* it resolved with. A call runs up to indexedDB.open or, when this.db is
\* set, up to its await ("opening", "ready"); the rest of it runs in a later
\* turn of the event loop ("done").
DBCall(op, id, value, pc, handle) ==
    [op |-> op, id |-> id, value |-> value, pc |-> pc, handle |-> handle,
     result |-> NothingFound, all |-> <<>>]

\* The values set is called with: with the key path 'id', and one without.
DBRecords ==
    {SampleRecord(id, {}) : id \in Times}
        \cup {[SampleRecord(0, {}) EXCEPT !.title = NotepadTitle("c", 1)],
              SampleRecord(0, {"id"})}

\* The calls a caller makes.
DBRequests ==
    {DBCall(op, UndefinedID, NoRecord, "", 0) : op \in {"init", "getAll"}}
        \cup {DBCall("set", IDOf(value), value, "", 0) : value \in DBRecords}
        \cup {DBCall(op, id, NoRecord, "", 0) : op \in {"get", "delete"}, id \in Times}

\* init() as far as it runs within the call: this.db if it is set, otherwise
\* a new request indexedDB.open(this.dbName, 1), whose handle is a new one.
init(request) ==
    IF db # 0
    THEN [call |-> [request EXCEPT !.pc = "ready", !.handle = db], opened |-> opened]
    ELSE [call |-> [request EXCEPT !.pc = "opening", !.handle = opened + 1],
          opened |-> opened + 1]

\* A caller calls init, set, get, getAll or delete: each of them starts with
\* this.init().
Invoke(request) ==
    /\ Len(dbCalls) < MaxDBCalls
    /\ dbCalls' = Append(dbCalls, init(request).call)
    /\ opened' = init(request).opened
    /\ UNCHANGED <<db, objectStore, dbLast>>
    /\ UNCHANGED storageFrame

\* request.onsuccess of the open request of call c: this.db = e.target.result
\* and the promise of init() resolves with it.
OpenSucceeds(c) ==
    /\ c \in 1..Len(dbCalls)
    /\ dbCalls[c].pc = "opening"
    /\ db' = dbCalls[c].handle
    /\ dbCalls' = [dbCalls EXCEPT ![c].pc = "ready"]
    /\ UNCHANGED <<opened, objectStore, dbLast>>
    /\ UNCHANGED storageFrame

\* The transaction of set, get, getAll and delete on the object store, whose
\* key path is 'id': put(value) throws a DataError for a value without an id.
transaction(records, call) ==
    CASE call.op = "set" ->
             IF call.id = UndefinedID
             THEN [records |-> records, result |-> [NothingFound EXCEPT !.tag = "DataError"],
                   all |-> <<>>]
             ELSE [records |-> Put(records, call.id, call.value), result |-> NothingFound,
                   all |-> <<>>]
      [] call.op = "get" ->
             [records |-> records,
              result |-> IF call.id \in DOMAIN records
                         THEN Found(records[call.id]) ELSE NothingFound,
              all |-> <<>>]
      [] call.op = "getAll" ->
             [records |-> records, result |-> NothingFound, all |-> records]
      [] call.op = "delete" ->
             [records |-> Delete(records, call.id), result |-> NothingFound, all |-> <<>>]
      [] OTHER ->
             [records |-> records, result |-> NothingFound, all |-> <<>>]

\* Call c goes on after 'await this.init()' with the handle it was given, and
\* its transaction runs to its end.
Resume(c) ==
    /\ c \in 1..Len(dbCalls)
    /\ dbCalls[c].pc = "ready"
    /\ LET t == transaction(objectStore, dbCalls[c])
       IN  /\ objectStore' = t.records
           /\ dbCalls' = [dbCalls EXCEPT ![c].pc = "done", ![c].result = t.result,
                                         ![c].all = t.all]
    /\ dbLast' = AdapterCall(dbCalls[c].op, dbCalls[c].id, dbCalls[c].value, TRUE)
    /\ UNCHANGED <<db, opened>>
    /\ UNCHANGED storageFrame

NextStorageDB ==
    \/ \E request \in DBRequests : Invoke(request)
    \/ \E c \in 1..MaxDBCalls : OpenSucceeds(c)
    \/ \E c \in 1..MaxDBCalls : Resume(c)

SpecStorageDB == Init /\ [][NextStorageDB]_vars

\* ------------------------------------------------------- reading the state
\* The number of entries of the Position Index (Map.size).
Size(m) == Len(m)

\* The keys of m are exactly the positions 1..size.
Dense(m) == MapKeys(m) = 1..Size(m)

\* The ids of the rendered notes.
RenderedIDs(dom) == {dom[i].id : i \in 1..Len(dom)}

\* m is a bijection between the positions 1..size and the ids of the notes
\* of dom: every position of 1..size and no other key, every note under
\* exactly one position, no two notes with one id.
IsBijection(m, dom) ==
    /\ Dense(m)
    /\ \A p \in 1..Size(m) : MapGet(m, p) \in RenderedIDs(dom)
    /\ \A p, q \in 1..Size(m) : MapGet(m, p) = MapGet(m, q) => p = q
    /\ \A i, j \in 1..Len(dom) : dom[i].id = dom[j].id => i = j
    /\ Len(dom) = Size(m)

\* The order the index gives: the id under position 1, under position 2, ...
IndexOrder(m) == [p \in 1..Size(m) |-> MapGet(m, p)]

\* The order the index gives is the order the notes are rendered in.
SameOrder(m, dom) == IndexOrder(m) = retrieveNotepad(dom)

\* s with its p-th element taken out and put back as the q-th.
Reinserted(s, p, q) == InsertAt(RemoveAt(s, p), q, s[p])

Max(a, b) == IF a >= b THEN a ELSE b
Min(a, b) == IF a <= b THEN a ELSE b

\* m1 and m2 are the same mapping: the same keys with the same values.
SameIndex(m1, m2) ==
    /\ MapKeys(m1) = MapKeys(m2)
    /\ \A key \in MapKeys(m1) : MapGet(m1, key) = MapGet(m2, key)

\* ------------------------------------------------------- reading the steps
\* The id the index holds at the position the last moveNote call named as
\* the note's current position.
MovedNote == MapGet(notesContainerIndex, last'.from)

\* The step is the call moveNote(MovedNote, last'.from, last'.to).
MoveNoteCalled ==
    /\ last'.op = "moveNote"
    /\ now' = now
    /\ MoveNote(MovedNote, last'.from, last'.to)

\* The step is the call deleteNote(noteID) on a rendered note.
DeleteNoteCalled(noteID) ==
    /\ last'.op = "deleteNote"
    /\ now' = now
    /\ DeleteNote(noteID)

\* The step is the call newNote().
NewNoteCalled ==
    /\ last'.op = "newNote"
    /\ now' = now
    /\ NewNote

\* -------------------------------------------------------------------- C1
\* C1: after every newNote, deleteNote and moveNote call (on a note that is
\* present, from its current position, to any integer) the Position Index is
\* a bijection between the positions 1..size and the ids of the notes in the
\* notepad.
C1_IndexIsBijection ==
    last.op \in {"init", "newNote", "deleteNote", "moveNote"}
        => IsBijection(notesContainerIndex, notesContainer)

\* -------------------------------------------------------------------- C2
\* C2: in every state the order of the rendered notes, which is the order
\* retrieveNotepad serializes, is the order the Position Index gives. Stated
\* here of the states reached without any call having thrown, where it
\* already fails.
C2_RenderedOrderIsIndexOrder ==
    (aftermath = 0 /\ error = "none")
        => SameOrder(notesContainerIndex, notesContainer)

\* -------------------------------------------------------------------- C3
\* C3: moveNote(id, from, to) leaves the note at position
\* max(1, min(to, size)), for every integer to, and creates no index entry
\* outside 1..size.
C3_TargetIsClamped ==
    [][MoveNoteCalled
          => /\ MapGet(notesContainerIndex',
                       Max(1, Min(last'.to, Size(notesContainerIndex)))) = MovedNote
             /\ MapKeys(notesContainerIndex') \subseteq 1..Size(notesContainerIndex)
      ]_vars

\* -------------------------------------------------------------------- C4
\* C4: on a notepad of size N, for from and to in 1..N with from # to,
\* moveNote(id, from, to) on the note at position from gives the order
\* obtained by taking that note out and putting it back at position to.
C4_MoveReinserts ==
    [][( /\ MoveNoteCalled
         /\ last'.from \in 1..Size(notesContainerIndex)
         /\ last'.to \in 1..Size(notesContainerIndex)
         /\ last'.from # last'.to )
            => IndexOrder(notesContainerIndex')
                  = Reinserted(IndexOrder(notesContainerIndex), last'.from, last'.to)
      ]_vars

\* The same on the notepads whose index is a bijection between 1..N and the
\* N rendered notes: there the index is reordered as C4 says, and the
\* rendered order follows it when it agreed with the index before.
MoveReinsertsOnBijection ==
    [][( /\ MoveNoteCalled
         /\ IsBijection(notesContainerIndex, notesContainer)
         /\ last'.from \in 1..Size(notesContainerIndex)
         /\ last'.to \in 1..Size(notesContainerIndex)
         /\ last'.from # last'.to )
            => /\ Dense(notesContainerIndex')
               /\ IndexOrder(notesContainerIndex')
                     = Reinserted(IndexOrder(notesContainerIndex), last'.from, last'.to)
               /\ SameOrder(notesContainerIndex, notesContainer)
                     => SameOrder(notesContainerIndex', notesContainer')
      ]_vars

\* -------------------------------------------------------------------- C5
\* C5: moveNote(id, p, p), for p in 1..size, leaves the Position Index and
\* the rendered order of the notes (the order retrieveNotepad serializes)
\* unchanged.
C5_MoveToSamePositionIsNoOp ==
    [][( /\ MoveNoteCalled
         /\ last'.from = last'.to
         /\ last'.from \in 1..Size(notesContainerIndex) )
            => /\ SameIndex(notesContainerIndex', notesContainerIndex)
               /\ retrieveNotepad(notesContainer') = retrieveNotepad(notesContainer)
      ]_vars

\* -------------------------------------------------------------------- C6
\* C6: moveNote(id, from, to) followed by moveNote(id, to, from) restores
\* the order of all notes, in the Position Index and as rendered.
C6_MoveBackRestoresOrder ==
    [][MoveNoteCalled
          => LET back == moveNote(notesContainerIndex', notesContainer',
                                  MovedNote, last'.to, last'.from)
             IN  /\ SameIndex(back.index, notesContainerIndex)
                 /\ retrieveNotepad(back.dom) = retrieveNotepad(notesContainer)
      ]_vars

\* -------------------------------------------------------------------- C7
\* C7: deleteNote(id) on the note at position p removes exactly that note:
\* size decreases by one, the notes below p keep their position, the notes
\* above p shift down by one, and the rendered order of the others is
\* unchanged.
C7_DeleteRemovesExactlyTheNote ==
    [][\A noteID \in NoteIDs, p \in Positions :
          (DeleteNoteCalled(noteID) /\ MapGet(notesContainerIndex, p) = noteID)
              => /\ Size(notesContainerIndex') = Size(notesContainerIndex) - 1
                 /\ \A k \in MapKeys(notesContainerIndex) :
                       /\ k < p => MapGet(notesContainerIndex', k)
                                      = MapGet(notesContainerIndex, k)
                       /\ k > p => MapGet(notesContainerIndex', k - 1)
                                      = MapGet(notesContainerIndex, k)
                 /\ \E j \in 1..Len(notesContainer) :
                       /\ notesContainer[j].id = noteID
                       /\ retrieveNotepad(notesContainer')
                             = RemoveAt(retrieveNotepad(notesContainer), j)
      ]_vars

\* -------------------------------------------------------------------- C8
\* C8: deleteNote and moveNote with an id that names no note raise no error
\* and leave the Position Index and the rendered notes unchanged.
C8_AbsentIdIsSilentNoOp ==
    [][(last'.op \in {"deleteAbsentNote", "moveAbsentNote"} /\ now' = now)
          => /\ error' = "none"
             /\ UNCHANGED <<notesContainerIndex, notesContainer>>
      ]_vars

\* The moveNote half of C8: moveNote with an id that names no note raises
\* no error and changes nothing.
MoveAbsentIsSilentNoOp ==
    [][(last'.op = "moveAbsentNote" /\ now' = now)
          => /\ error' = "none"
             /\ UNCHANGED <<notesContainerIndex, notesContainer>>
      ]_vars

\* -------------------------------------------------------------------- C9
\* C9: in any state with size N, after newNote the size is N + 1, the new
\* note is at position N + 1 and rendered last, and every note that existed
\* keeps its position.
C9_NewNoteAppends ==
    [][NewNoteCalled
          => LET N == Size(notesContainerIndex)
                 noteID == generateID(now, N + 1)
             IN  /\ Size(notesContainerIndex') = N + 1
                 /\ MapGet(notesContainerIndex', N + 1) = noteID
                 /\ \A k \in MapKeys(notesContainerIndex) :
                       MapGet(notesContainerIndex', k) = MapGet(notesContainerIndex, k)
                 /\ retrieveNotepad(notesContainer')
                       = Append(retrieveNotepad(notesContainer), noteID)
      ]_vars

\* ------------------------------------------------------------------- C10
\* C10: in any state with size N >= 1, deleteNote of a present note followed
\* by newNote gives size N and the positions 1..N again, with the notes that
\* were not deleted in their original relative order.
C10_DeleteThenNewNoteKeepsSize ==
    [][\A noteID \in NoteIDs :
          (DeleteNoteCalled(noteID) /\ Size(notesContainerIndex) >= 1)
              => LET N == Size(notesContainerIndex)
                     after == newNote(notesContainerIndex', notesContainer',
                                      generateID(now, Size(notesContainerIndex') + 1))
                 IN  /\ Size(after.index) = N
                     /\ MapKeys(after.index) = 1..N
                     /\ \E p \in 1..N :
                           /\ MapGet(notesContainerIndex, p) = noteID
                           /\ SubSeq(IndexOrder(after.index), 1, N - 1)
                                 = RemoveAt(IndexOrder(notesContainerIndex), p)
      ]_vars


\* ------------------------------------------------------------ debounce
\* Every call but the first arrives less than Wait after the call before it.
OneBurst == \A k \in 2..Len(calls) : calls[k].at - calls[k - 1].at < Wait

\* The invocation is the one the k-th call asked for: func runs with the
\* arguments of the k-th call, not earlier than Wait after it, and no call
\* was made between the two.
Serves(invocation, k) ==
    /\ invocation.calls = k
    /\ invocation.id = k
    /\ invocation.args = calls[k].args
    /\ invocation.at >= calls[k].at + Wait

DebounceSafety ==
    /\ \A i \in 1..Len(invocations) :
          /\ invocations[i].calls \in 1..Len(calls)
          /\ Serves(invocations[i], invocations[i].calls)
    /\ \A i, j \in 1..Len(invocations) :
          invocations[i].calls = invocations[j].calls => i = j
    /\ OneBurst => Len(invocations) <= 1

\* C20: debounce(func, wait) coalesces a burst. Whatever calls are made, func
\* only ever runs with the arguments of the last call made so far, not earlier
\* than wait after that call, and at most once for it; while every call has
\* arrived less than wait after the one before, func has run at most once; a
\* burst is followed by exactly one run of func (or by a call that arrives
\* wait or more after it); and every call is followed by a run of func made
\* after it.
C20_DebounceCoalescesBursts ==
    /\ []DebounceSafety
    /\ (OneBurst /\ Len(calls) > 0) ~> (~OneBurst \/ Len(invocations) = 1)
    /\ \A k \in 1..MaxCalls :
          (Len(calls) >= k) ~>
              (\E i \in 1..Len(invocations) : invocations[i].calls >= k)

\* A burst of calls with different arguments, made at different times, that
\* func has run once for.
C20_Witness ==
    /\ Len(calls) >= 2
    /\ OneBurst
    /\ calls[Len(calls)].args # calls[1].args
    /\ calls[Len(calls)].at > calls[1].at
    /\ Len(invocations) = 1
    /\ Serves(invocations[1], Len(calls))


\* ----------------------------------------------------- dataFallbackMode
FallbackCalled == fallbackCall.version # "none"
NewDataThrew == FallbackCalled /\ fallbackCall.onNew # "returns"

\* How many times the last call told of the failure.
Reported == Cardinality({i \in 1..Len(reports) : reports[i] \in {"alert", "console.error"}})

\* action(oldData) was invoked after action(newData).
OldDataAppliedAfterwards ==
    \E i, j \in 1..Len(reports) :
        /\ i < j
        /\ reports[i] = "action(newData)"
        /\ reports[j] = "action(oldData)"

\* C12: whenever action(newData) throws, action(oldData) is invoked
\* afterwards, the state is left as oldData, and the failure is reported
\* exactly once.
C12_FallbackRevertsAndReportsOnce ==
    NewDataThrew =>
        /\ OldDataAppliedAfterwards
        /\ target = fallbackCall.oldData
        /\ Reported = 1

\* The same, for the calls in which action(oldData) returns.
FallbackRevertsWhenOldDataApplies ==
    (NewDataThrew /\ fallbackCall.onOld = "returns") =>
        /\ OldDataAppliedAfterwards
        /\ target = fallbackCall.oldData
        /\ Reported = 1
        /\ ~escaped

\* Either version invokes action(oldData) after action(newData) has thrown.
FallbackAlwaysRetries == NewDataThrew => OldDataAppliedAfterwards

\* The later version reports before it reverts: its report is never lost.
LoggingVersionReportsOnce ==
    (NewDataThrew /\ fallbackCall.version = "part_000") => Reported = 1


\* ------------------------------------------------------------- note ids
\* C17: no two notes of the open notepad have the same id, whether the clock
\* advances between the operations or not.
C17_NoteIDsAreUnique ==
    \A i, j \in 1..Len(notesContainer) :
        notesContainer[i].id = notesContainer[j].id => i = j


\* ------------------------------------------------------------ autosave
\* What a record says of a rendered note.
NoteRecordOf(note) ==
    [id |-> note.id, title |-> note.title, content |-> note.content,
     accentColor |-> note.accentColor]

\* The last handler was the observer's callback and its write was taken.
AutosaveStored == storeCall.op = "autosave" /\ storeCall.writes = <<TRUE>>

\* The record stored under the id of the open notepad lists the notes in the
\* order of the Position Index, each as it is rendered now.
StoredInIndexOrder ==
    /\ notepad.id \in DOMAIN store
    /\ Len(store[notepad.id].notes) = Size(notesContainerIndex)
    /\ \A p \in 1..Size(notesContainerIndex) :
          LET j == getElementById(notesContainer, MapGet(notesContainerIndex, p))
          IN  /\ j # 0
              /\ p <= Len(store[notepad.id].notes)
              /\ store[notepad.id].notes[p] = NoteRecordOf(notesContainer[j])

\* The same, in the order the notes are rendered in.
StoredInDocumentOrder ==
    /\ notepad.id \in DOMAIN store
    /\ store[notepad.id].notes =
           [i \in 1..Len(notesContainer) |-> NoteRecordOf(notesContainer[i])]
    /\ store[notepad.id].title = notepad.title

\* C19: every mutation of the open notepad is persisted: once mutations are
\* queued for the observer its callback runs, and when its write is taken the
\* record stored under the id of the open notepad lists the notes in Position
\* Index order with their titles, texts and accent colours as they are.
C19_MutationsArePersisted ==
    /\ [](AutosaveStored => StoredInIndexOrder)
    /\ observed ~> ~observed

\* The callback runs after every handler that queued mutations.
AutosaveEventuallyRuns == observed ~> ~observed

\* What the callback stores is the notepad in document order.
AutosaveStoresDocumentOrder == AutosaveStored => StoredInDocumentOrder

\* Where the index is a bijection in the order of the document, what the
\* callback stores is in the order of the index.
AutosaveStoresIndexOrderOfOrderedNotepad ==
    (/\ AutosaveStored
     /\ IsBijection(notesContainerIndex, notesContainer)
     /\ SameOrder(notesContainerIndex, notesContainer)) => StoredInIndexOrder

\* ----------------------------------------------------------- round trip
\* #fillNotepad(#retrieveNotepad(), true) on the open notepad.
RoundTrip == fillNotepad(retrieveNotepadRecord(notepad, notesContainer, now), now)

\* The note the index holds at position p, as a record would list it; no
\* note when the position names none.
NoteAt(m, dom, p) ==
    LET j == getElementById(dom, MapGet(m, p))
    IN  IF j = 0 THEN <<>> ELSE <<NoteRecordOf(dom[j])>>

\* C11: retrieveNotepad() followed by fillNotepad(record, true) gives an
\* equivalent notepad: the same notepad id and title, as many notes, and at
\* every position the note with the same id, title, text and accent colour.
C11_RoundTripReproducesNotepad ==
    /\ RoundTrip.err = "none"
    /\ RoundTrip.notepad.id = notepad.id
    /\ RoundTrip.notepad.title = notepad.title
    /\ Len(RoundTrip.dom) = Len(notesContainer)
    /\ Size(RoundTrip.index) = Size(notesContainerIndex)
    /\ \A p \in MapKeys(notesContainerIndex) \cup MapKeys(RoundTrip.index) :
          NoteAt(RoundTrip.index, RoundTrip.dom, p) =
              NoteAt(notesContainerIndex, notesContainer, p)

\* The round trip keeps the notepad as it is rendered: the same notes, with
\* the same ids, titles, texts and accent colours, in document order.
RoundTripKeepsDocument ==
    /\ RoundTrip.err = "none"
    /\ RoundTrip.notepad.id = notepad.id
    /\ RoundTrip.notepad.title = notepad.title
    /\ [i \in 1..Len(RoundTrip.dom) |-> NoteRecordOf(RoundTrip.dom[i])] =
           [i \in 1..Len(notesContainer) |-> NoteRecordOf(notesContainer[i])]

\* Where the index is a bijection in the order of the document, the round
\* trip keeps every note at its position.
RoundTripOfOrderedNotepad ==
    (/\ IsBijection(notesContainerIndex, notesContainer)
     /\ SameOrder(notesContainerIndex, notesContainer))
        => C11_RoundTripReproducesNotepad


\* ------------------------------------------------- the stored notepads
\* The handler of this step is a use of the Import, Restore, Duplicate or
\* Delete control, or the observer's callback.
Handled(op) == storeCall'.op = op /\ storeCall'.calls = storeCall.calls + 1

AutosaveHandled == observed /\ ~observed' /\ storeCall'.op = "autosave"

\* The open notepad is left as it was.
OpenNotepadUntouched ==
    /\ notepad' = notepad
    /\ notesContainer' = notesContainer
    /\ notesContainerIndex' = notesContainerIndex

\* The record lacks a field of the record format.
LacksField(record) == record.lacks # {}

\* C14: every key of the stored notepads is the id of the record stored under
\* it, in every state in which the observer's callback is not about to run.
C14_KeysAreRecordIDs ==
    ~observed =>
        \A key \in DOMAIN store :
            /\ "id" \notin store[key].lacks
            /\ store[key].id = key

\* The observer's callback, import and duplicate store a record under the
\* property name its id gives.
StoredUnderOwnID ==
    [][(\/ AutosaveHandled
        \/ Handled("importNotepad")
        \/ Handled("duplicateNotepad"))
       => \A key \in DOMAIN store' :
              \/ key \in DOMAIN store /\ store'[key] = store[key]
              \/ ReadID(store'[key]) = key]_vars

\* C15: an import or restore payload that lacks a required field of the
\* record format, for a backup in any of its records, is rejected: the open
\* notepad and the stored notepads are left as they were and an alert is
\* shown.
C15_MalformedPayloadIsRejected ==
    [][(\/ /\ Handled("importNotepad")
           /\ LacksField(storeCall'.record)
           /\ storeCall'.choice # "Cancel"
        \/ /\ Handled("restoreNotepads")
           /\ \E key \in DOMAIN storeCall'.backup : LacksField(storeCall'.backup[key]))
       => /\ OpenNotepadUntouched
          /\ store' = store
          /\ shown' # <<>>]_vars

\* An import file without notes is rejected that way.
ImportWithoutNotesIsRejected ==
    [][(/\ Handled("importNotepad")
        /\ "notes" \in storeCall'.record.lacks)
       => /\ OpenNotepadUntouched
          /\ store' = store
          /\ Len(shown') = 1
          /\ shown'[1].message = "Error - Notepad not imported."]_vars

\* C13: restore is all-or-nothing: after restoreNotepads the stored notepads
\* are the whole backup or the whole of what was stored before, and whenever
\* the restore shows an alert the notepads stored before are in place when it
\* is shown.
C13_RestoreIsAllOrNothing ==
    [][Handled("restoreNotepads")
       => /\ store' = storeCall'.backup \/ store' = store
          /\ \A i \in 1..Len(shown') : shown'[i].store = store]_vars

\* After restoreNotepads the stored notepads are the whole backup or the
\* whole of what was stored before.
RestoreStoresBackupOrBefore ==
    [][Handled("restoreNotepads")
       => (store' = storeCall'.backup \/ store' = store)]_vars

\* While the local storage takes the second write, the notepads stored before
\* are in place whenever the restore shows an alert.
RestoreRevertsBeforeItReports ==
    [][(Handled("restoreNotepads") /\ storeCall'.writes[2])
       => \A i \in 1..Len(shown') : shown'[i].store = store]_vars

\* A restore that fell back leaves a new notepad in place of the open one.
FallbackReplacesOpenNotepad ==
    [][(/\ Handled("restoreNotepads")
        /\ \E i \in 1..Len(shown') :
              shown'[i].message = "The action could not be performed.")
       => /\ store' = store
          /\ notepad'.id = generateNotepadID(now)
          /\ Len(notesContainer') = 1]_vars


\* --------------------------------------------------- refused writes
\* The handler of this step made a write that the local storage refused.
WriteRefused ==
    \/ AutosaveHandled /\ storeCall'.writes = <<FALSE>>
    \/ Handled("duplicateNotepad") /\ storeCall'.writes = <<FALSE>>
    \/ Handled("deleteNotepad") /\ storeCall'.writes = <<FALSE>>
    \/ /\ Handled("importNotepad")
       /\ storeCall'.writes = <<FALSE>>
       /\ "notes" \notin storeCall'.record.lacks
       /\ storeCall'.choice # "Cancel"
    \/ /\ Handled("restoreNotepads")
       /\ DOMAIN storeCall'.backup # {}
       /\ storeCall'.writes # <<TRUE, TRUE>>

\* What was stored when the refused write was made: the backup when the
\* restore had written it and the write refused was the one of the notepads
\* stored before, else what was stored when the handler began.
StoredBeforeRefusedWrite ==
    IF storeCall'.op = "restoreNotepads" /\ storeCall'.writes = <<TRUE, FALSE>>
    THEN storeCall'.backup
    ELSE store

\* The open notepad is what a leaves.
OpenNotepadAs(a) ==
    /\ notepad' = a.notepad
    /\ notesContainer' = a.dom
    /\ notesContainerIndex' = a.index

\* The open notepad is the one the handler leaves when its writes are taken;
\* after the observer's callback it is the notepad as the user edited it.
OpenNotepadKept ==
    CASE storeCall'.op = "autosave" ->
             /\ notesContainer' = notesContainer
             /\ notesContainerIndex' = notesContainerIndex
             /\ notepad' = [notepad EXCEPT !.lastUpdate = now]
      [] storeCall'.op = "duplicateNotepad" -> OpenNotepadUntouched
      [] storeCall'.op = "deleteNotepad" ->
             OpenNotepadAs(deleteNotepad(Here, IDOf(storeCall'.record), TRUE, now))
      [] storeCall'.op = "importNotepad" ->
             OpenNotepadAs(importNotepad(Here, storeCall'.record, storeCall'.choice,
                                         TRUE, now))
      [] OTHER ->
             \/ OpenNotepadUntouched
             \/ OpenNotepadAs(newNotepad(TRUE, now))

LocalStorageErrors ==
    {i \in 1..Len(shown') : shown'[i].message = "Local storage error."}

\* C16: a refused write is recoverable: when the write of storeNotepad,
\* removeStoredNotepad or replaceStoredNotepads fails, no exception of the
\* write leaves the handler, the stored notepads are what they were before
\* the write, the open notepad is what the handler makes of it with the write
\* taken (the user's edit, for the observer's callback), and one alert tells
\* of each refused write.
C16_RefusedWriteIsRecoverable ==
    [][WriteRefused
       => /\ error' # "StorageError"
          /\ store' = StoredBeforeRefusedWrite
          /\ OpenNotepadKept
          /\ Cardinality(LocalStorageErrors) = Refused(storeCall'.writes)]_vars

\* The user has edited the title, the observer's callback has run, its write
\* was refused: the edit is in the open notepad and not in the stored one.
C16_Witness ==
    /\ storeCall.op = "autosave"
    /\ storeCall.writes = <<FALSE>>
    /\ notepad.title = NotepadTitle("b", 0)
    /\ notepad.id \in DOMAIN store
    /\ store[notepad.id].title # notepad.title
    /\ Len(shown) = 1
    /\ shown[1].message = "Local storage error."
    /\ error = "none"

\* ----------------------------------------------------------- duplicate
\* The title of a copy of record: its title followed by the copy marker.
CopyTitle(record) ==
    IF "title" \in record.lacks
    THEN NotepadTitle("undefined", 1)
    ELSE NotepadTitle(record.title.text, record.title.copies + 1)

\* The step leaves the record under the key of the line and every other
\* stored record as it was, and adds one entry: a copy with another id, the
\* title followed by the copy marker, both timestamps now, the same notes.
DuplicateAddsOneCopy ==
    LET key == storeCall'.key
        added == DOMAIN store' \ DOMAIN store
    IN  /\ \A k \in DOMAIN store : k \in DOMAIN store' /\ store'[k] = store[k]
        /\ Cardinality(added) = 1
        /\ \A k \in added :
              /\ store'[k].id = k
              /\ "id" \notin store'[k].lacks
              /\ k # ReadID(store[key])
              /\ store'[k].title = CopyTitle(store[key])
              /\ store'[k].created = now
              /\ store'[k].lastUpdate = now
              /\ store'[k].notes = store[key].notes

\* C18: duplicateNotepad(r) on a stored record r leaves r and its entry as
\* they were and adds exactly one entry: a copy whose id differs from r's,
\* whose title is r's followed by the copy marker, whose created and
\* lastUpdate are the current time and whose notes are r's.
C18_DuplicateAddsOneCopy ==
    [][(Handled("duplicateNotepad") /\ storeCall'.writes = <<TRUE>>)
       => DuplicateAddsOneCopy]_vars

\* It does whenever no notepad is stored under 'notepad' + the current time.
DuplicateAtUnusedTimeAddsOneCopy ==
    [][(/\ Handled("duplicateNotepad")
        /\ storeCall'.writes = <<TRUE>>
        /\ generateNotepadID(now) \notin DOMAIN store)
       => DuplicateAddsOneCopy]_vars


\* ------------------------------------------------------------ counters
\* The maximal runs of word-forming characters of a text: the positions at
\* which one begins.
WordRuns(string) ==
    {i \in 1..Len(string) :
        /\ IsWordCharacter(string[i])
        /\ i = 1 \/ ~IsWordCharacter(string[i - 1])}

\* C21: countWords(text) is the number of maximal runs of word-forming
\* characters of the text; "Hello world" followed by a party popper gives 3
\* and the empty text gives 0.
C21_CountWordsCountsRuns ==
    /\ wordCounter = Cardinality(WordRuns(noteText))
    /\ noteText = HelloWorld => wordCounter = 3
    /\ noteText = <<>> => wordCounter = 0

\* The counter of "Hello world" followed by a party popper shows 3.
C21_Witness == noteText = HelloWorld /\ wordCounter = 3

\* C26: getReadTime(text) is ceil(countWords(text) * 60 / 238) seconds, and 0
\* for a text of no word.
C26_ReadTimeAt238WordsPerMinute ==
    /\ readTimeCounter = ceil(wordCounter * 60, 238)
    /\ wordCounter = 0 => readTimeCounter = 0

\* getReadTime of src/js/utilities.js is ceil(countWords(text) * 60 / 283).
ReadTimeAt283WordsPerMinute == readTimeCounter = ceil(wordCounter * 60, 283)

\* A text of no word reads in 0 seconds.
NoWordReadsInNoTime == wordCounter = 0 => readTimeCounter = 0

\* The later version shows the seconds at 238 words per minute, as text.
FormattedReadTimeAt238WordsPerMinute ==
    LET seconds == ceil(wordCounter * 60, 238)
    IN  formattedTimeCounter =
            IF seconds >= 60
            THEN <<seconds \div 60, "m ", seconds % 60, "s">>
            ELSE <<seconds, "s">>


\* ------------------------------------------------------ display positions
\* The note at place j of the document shows position p: its data-note-index
\* attribute and the value and defaultValue of its position input.
DisplaysPosition(dom, j, p) ==
    /\ dom[j].noteIndex = Num(p)
    /\ dom[j].value = Num(p)
    /\ dom[j].defaultValue = Num(p)

\* For every position p of the index the note with id index[p] is rendered
\* and shows p, and the position input of every note has max = size.
DisplayMatchesIndex(m, dom) ==
    /\ \A p \in MapKeys(m) :
          /\ \E j \in 1..Len(dom) : dom[j].id = MapGet(m, p)
          /\ \A j \in 1..Len(dom) :
                dom[j].id = MapGet(m, p) => DisplaysPosition(dom, j, p)
    /\ \A j \in 1..Len(dom) : dom[j].max = Size(m)

\* C22: after every newNote, deleteNote and moveNote, for every position p of
\* the Position Index the note with id index[p] carries display position p
\* (data-note-index, value and defaultValue of its position input) and every
\* note's position input has max equal to the size of the index.
C22_DisplayPositionIsIndexPosition ==
    last.op \in {"init", "newNote", "deleteNote", "moveNote"}
        => DisplayMatchesIndex(notesContainerIndex, notesContainer)

\* It is so after every call that returned and left the index a bijection
\* between 1..size and the rendered notes.
DisplayMatchesBijectiveIndex ==
    (/\ last.op \in {"init", "newNote", "deleteNote", "moveNote"}
     /\ error = "none"
     /\ IsBijection(notesContainerIndex, notesContainer))
        => DisplayMatchesIndex(notesContainerIndex, notesContainer)


\* ----------------------------------------------- replacing the open notepad
\* The open notepad holds the notes of the record and no other: as many
\* notes, the i-th rendered note made from the i-th note of the record, and
\* the index mapping position i to its id.
HoldsNotesOf(record, m, dom) ==
    /\ Len(dom) = Len(record.notes)
    /\ Size(m) = Len(record.notes)
    /\ \A i \in 1..Len(record.notes) :
          /\ dom[i].id = record.notes[i].id
          /\ dom[i].title = record.notes[i].title
          /\ dom[i].content = record.notes[i].content
          /\ MapGet(m, i) = record.notes[i].id

\* C23: fillNotepad(record, true) replaces the open notepad wholesale: no
\* note of the notepad open before remains, the size is the number of notes
\* of the record and the index maps position i to the id of the i-th note of
\* record.notes.
C23_FillReplacesOpenNotepad ==
    [][Handled("openNotepad")
       => HoldsNotesOf(storeCall'.record, notesContainerIndex', notesContainer')]_vars

\* A stored notepad of two notes, the second created one first, has been
\* opened in place of another notepad.
C23_Witness ==
    /\ storeCall.op = "openNotepad"
    /\ Len(storeCall.record.notes) = 2
    /\ storeCall.record.notes[1].id[2] = 2
    /\ notepad.id = storeCall.key
    /\ Len(notesContainer) = 2
    /\ \E key \in DOMAIN store : key # notepad.id

C25_NotepadKeepsOneNote == Len(notesContainer) >= 1

\* deleteNote on the last remaining note leaves the index empty.
DeletingLastNoteEmptiesIndex ==
    [][(/\ storeCall'.op = "deleteNote"
        /\ ~observed
        /\ Len(notesContainer) = 1
        /\ IsBijection(notesContainerIndex, notesContainer))
       => /\ notesContainerIndex' = <<>>
          /\ notesContainer' = <<>>]_vars


\* ------------------------------------------------------ deleting a notepad
\* The notepad the Delete control was used on was the open one.
DeletedOpenNotepad == IDOf(storeCall'.record) = notepad.id

\* C28: after deleteNotepad(id) the stored notepads hold no record under id
\* and every other record as it was; the open notepad then has another id (a
\* blank notepad has replaced it when id was its id), so that the observer's
\* callback, which stores under the id of the open notepad, stores nothing
\* under id again.
C28_DeletedNotepadStaysDeleted ==
    [][(Handled("deleteNotepad") /\ storeCall'.writes = <<TRUE>>)
       => /\ storeCall'.key \notin DOMAIN store'
          /\ \A k \in DOMAIN store \ {storeCall'.key} :
                k \in DOMAIN store' /\ store'[k] = store[k]
          /\ notepad'.id # storeCall'.key
          /\ DeletedOpenNotepad
                => /\ Len(notesContainer') = 1
                   /\ notesContainer'[1].content = ""
                   /\ notepad'.title = NotepadTitle(DefaultNotepadTitle, 0)]_vars

\* deleteNotepad removes the record under id and leaves every other one.
DeleteRemovesTheRecordOnly ==
    [][(Handled("deleteNotepad") /\ storeCall'.writes = <<TRUE>>)
       => /\ storeCall'.key \notin DOMAIN store'
          /\ \A k \in DOMAIN store \ {storeCall'.key} :
                k \in DOMAIN store' /\ store'[k] = store[k]]_vars

\* The open notepad has another id afterwards whenever the deleted record
\* has an id and the open notepad was not created at this clock reading.
DeletedAtAnotherTimeStaysDeleted ==
    [][(/\ Handled("deleteNotepad")
        /\ storeCall'.writes = <<TRUE>>
        /\ IDOf(storeCall'.record) # UndefinedID
        /\ notepad.id # generateNotepadID(now))
       => notepad'.id # storeCall'.key]_vars


\* ------------------------------------------- importing an existing notepad
\* The file holds a notepad whose id is the key of a stored notepad: the
\* dialog 'A version of this notepad already exists' is shown.
ImportedExistingNotepad ==
    /\ Handled("importNotepad")
    /\ "notes" \notin storeCall'.record.lacks
    /\ storeCall'.key \in DOMAIN store

\* The stored notepads are all kept as they were.
StoredNotepadsKept ==
    \A k \in DOMAIN store : k \in DOMAIN store' /\ store'[k] = store[k]

\* C29: an import whose id is that of a stored notepad overwrites the stored
\* one only with 'Replace existing notepad': after 'Cancel' the stored notepads
\* and the open notepad are as they were; after 'Keep both notepads' the stored
\* one is as it was and the imported one is stored under a generated id that
\* is not the id of the stored one.
C29_ImportOverwritesOnlyOnReplace ==
    [][ImportedExistingNotepad
       => /\ storeCall'.choice = "Cancel"
                => store' = store /\ OpenNotepadUntouched
          /\ storeCall'.choice = "Keep both notepads"
                => /\ store'[storeCall'.key] = store[storeCall'.key]
                   /\ generateNotepadID(now) # storeCall'.key
                   /\ storeCall'.writes = <<TRUE>>
                         => /\ generateNotepadID(now) \in DOMAIN store'
                            /\ notepad'.id = generateNotepadID(now)]_vars

\* 'Cancel' changes nothing.
CancelledImportChangesNothing ==
    [][(ImportedExistingNotepad /\ storeCall'.choice = "Cancel")
       => store' = store /\ OpenNotepadUntouched]_vars

\* 'Keep both notepads' keeps every stored notepad and stores the imported one
\* under the generated id when no stored notepad has the id the clock gives.
KeepBothWithUnusedIDKeepsBoth ==
    [][(/\ ImportedExistingNotepad
        /\ storeCall'.choice = "Keep both notepads"
        /\ generateNotepadID(now) \notin DOMAIN store)
       => /\ StoredNotepadsKept
          /\ storeCall'.writes = <<TRUE>>
                => /\ generateNotepadID(now) \in DOMAIN store'
                   /\ ReadID(store'[generateNotepadID(now)]) = generateNotepadID(now)
                   /\ notepad'.id = generateNotepadID(now)]_vars

\* Only 'Replace existing notepad' changes the stored notepad of the imported
\* id, when the clock gives another id.
OnlyReplaceOverwrites ==
    [][(/\ ImportedExistingNotepad
        /\ store'[storeCall'.key] # store[storeCall'.key]
        /\ generateNotepadID(now) # storeCall'.key)
       => storeCall'.choice = "Replace existing notepad"]_vars


\* ------------------------------------------- the laws of the adapter
\* The adapter was called with an id and the local storage took its write.
Wrote(call, op) == call.op = op /\ call.writeOK

\* The records stored under the other ids are as they were.
OtherRecordsKept(notepadID) ==
    \A k \in DOMAIN store \ {PropertyName(notepadID)} :
        k \in DOMAIN store' /\ store'[k] = store[k]

\* C27: with the local storage taking the writes, #getStoredNotepad(r.id)
\* right after #storeNotepad(r) returns r, #getStoredNotepad(id) right after
\* #removeStoredNotepad(id) returns undefined, and #storeNotepad and
\* #removeStoredNotepad leave the records stored under every other id as
\* they were.
C27_AdapterLaws ==
    [][/\ (/\ Wrote(adapterCall, "storeNotepad")
           /\ adapterCall'.op = "getStoredNotepad"
           /\ adapterCall'.id = adapterCall.id)
          => got' = Found(adapterCall.record)
       /\ (/\ Wrote(adapterCall, "removeStoredNotepad")
           /\ adapterCall'.op = "getStoredNotepad"
           /\ adapterCall'.id = adapterCall.id)
          => got' = NothingFound
       /\ (Wrote(adapterCall', "storeNotepad") \/ Wrote(adapterCall', "removeStoredNotepad"))
          => OtherRecordsKept(adapterCall'.id)]_vars

\* The laws hold for every id that is not a property name of Object.prototype.
AdapterLawsOfOwnKeys ==
    [][adapterCall'.id \notin InheritedKeys
       => /\ (/\ Wrote(adapterCall, "storeNotepad")
              /\ adapterCall'.op = "getStoredNotepad"
              /\ adapterCall'.id = adapterCall.id)
             => got' = Found(adapterCall.record)
          /\ (/\ Wrote(adapterCall, "removeStoredNotepad")
              /\ adapterCall'.op = "getStoredNotepad"
              /\ adapterCall'.id = adapterCall.id)
             => got' = NothingFound]_vars

\* #storeNotepad and #removeStoredNotepad leave the other records alone,
\* whatever the id.
AdapterKeepsOtherRecords ==
    [][(Wrote(adapterCall', "storeNotepad") \/ Wrote(adapterCall', "removeStoredNotepad"))
       => OtherRecordsKept(adapterCall'.id)]_vars


\* ------------------------------------------------------ the database handle
\* C30: whatever the calls made on a StorageDB instance and however they
\* interleave, indexedDB.open is called at most once and every call has the
\* same handle of the database.
C30_DatabaseOpenedOnce ==
    /\ opened <= 1
    /\ \A c, d \in 1..Len(dbCalls) : dbCalls[c].handle = dbCalls[d].handle

\* indexedDB.open is called only while this.db is null, and a second time
\* only while an earlier open request has not succeeded yet.
OpensOnlyWhileOpening ==
    [][opened' > opened
       => /\ db = 0
          /\ opened >= 1 => \E c \in 1..Len(dbCalls) : dbCalls[c].pc = "opening"]_vars

\* A call made once this.db is set has the handle this.db holds.
CallAfterOpenHasTheHandle ==
    [][(Len(dbCalls') > Len(dbCalls) /\ db # 0)
       => /\ opened' = opened
          /\ dbCalls'[Len(dbCalls')].handle = db]_vars

\* StorageDB: get(r.id) right after set(r) resolves with r, get(id) right
\* after delete(id) with undefined, and set and delete leave the records under
\* the other keys as they were.
StorageDBLaws ==
    [][\A c \in 1..Len(dbCalls) :
          (dbCalls[c].pc = "ready" /\ dbCalls'[c].pc = "done")
          => /\ (dbCalls[c].op = "get" /\ dbLast.op = "set" /\ dbLast.id = dbCalls[c].id)
                => dbCalls'[c].result = Found(dbLast.record)
             /\ (dbCalls[c].op = "get" /\ dbLast.op = "delete"
                   /\ dbLast.id = dbCalls[c].id)
                => dbCalls'[c].result = NothingFound
             /\ dbCalls[c].op \in {"set", "delete"}
                => \A k \in DOMAIN objectStore \ {dbCalls[c].id} :
                      k \in DOMAIN objectStore' /\ objectStore'[k] = objectStore[k]]_vars

====
